---- MODULE Spec2Model ----
(***************************************************************************)
(* A model of the ChatGPT-facing MCP server of agent_mcp                   *)
(* (src/src/agent_mcp/chatgpt_fastapi_server.py): the credential chain of  *)
(* verify_token with the issued-token table, the POST /mcp handler, and    *)
(* the SSE parser and response reducer of invoke_langgraph_agent.          *)
(*                                                                         *)
(* The specifications share the variables:                                 *)
(*   Spec        the server: /oauth/token, verify_token, POST /mcp, clock  *)
(*   SpecStream  one run of invoke_langgraph_agent over an upstream stream *)
(*   SpecReduce  the reducer applied to a message list drawn in Init       *)
(***************************************************************************)
EXTENDS Integers, Sequences, FiniteSets, TLC

VARIABLES
    \* ---- server (Spec) ----
    cfg,             \* environment-driven configuration, fixed at start-up
    now,             \* time.time()
    active_tokens,   \* the in-memory issued-token table
    issued,          \* how many tokens secrets.token_urlsafe has produced
    req,             \* the POST /mcp request being served
    tokenResp,       \* the last answer of POST /oauth/token
    \* ---- invoke_langgraph_agent (SpecStream) ----
    pc,              \* position in invoke_langgraph_agent
    status,          \* upstream response status
    lines,           \* the lines response.aiter_lines() has yielded so far
    run_id,
    final_messages,
    current_event,
    current_data,
    envelope,        \* the dict invoke_langgraph_agent returned
    error_chunks,    \* chunks of an upstream error body not yet read
    error_text,      \* chunks of the error body read by the drain loop
    exc,             \* the exception an except block of the function caught
    \* ---- reducer (SpecReduce) ----
    msgs,            \* the message list handed to the reducer
    selected,        \* the index of the message the scan stopped at, 0 for none
    output_text,     \* the text the reducer returned
    \* ---- MCPAgent (SpecAgent) ----
    tools,           \* self.tools: the registered tool functions by name
    message_handlers, \* self.message_handlers: the handlers by method
    ran,             \* the callables the last operation called
    returned,        \* what the last operation returned or raised
    \* ---- AuthMiddleware of the FastMCP server (SpecMiddleware) ----
    oauth_config,    \* OAuthConfig: auth_enabled and api_keys
    cookie,          \* the session the client's signed cookie carries
    scope,           \* the ASGI scope of the request passing down the stack
    sent             \* the response the stack sent for it

serverVars == <<cfg, now, active_tokens, issued, req, tokenResp>>
streamVars == <<pc, status, lines, run_id, final_messages, current_event,
                current_data, envelope, error_chunks, error_text, exc>>
reduceVars == <<msgs, selected, output_text>>
agentVars == <<tools, message_handlers, ran, returned>>
middlewareVars == <<oauth_config, cookie, scope, sent>>
vars == <<serverVars, streamVars, reduceVars, agentVars, middlewareVars>>

(***************************************************************************)
(* Python values.  An optional dict entry is a sequence of length 0        *)
(* (key absent) or 1 (key present).  A str is the sequence of its          *)
(* characters, so that truthiness and startswith are computed.             *)
(***************************************************************************)
Absent == <<>>
Some(v) == <<v>>
Has(opt) == Len(opt) = 1
Val(opt) == opt[1]

\* bool(s) of a str: the empty string is falsy
Truthy(s) == Len(s) > 0
\* s.startswith("{")
StartsWithBrace(s) == Len(s) > 0 /\ s[1] = "{"

T_EMPTY == <<>>
T_HELLO == <<"H", "e", "l", "l", "o">>
T_NESTED == <<"N", "e", "s", "t">>
T_JSON == <<"{", "a", "}">>
T_OLD == <<"o", "l", "d">>
T_NEW == <<"n", "e", "w">>
FALLBACK_TEXT == <<"Agent is processing your request. Please try again in a moment.">>

(***************************************************************************)
(* Messages as the upstream sends them: loosely typed dicts.               *)
(***************************************************************************)
Msg(role, type, progress, message, content) ==
    [role |-> role, type |-> type, progress |-> progress,
     message |-> message, content |-> content]

\* the (role, type) spellings the upstream uses
RoleTypes == { <<Some("assistant"), Absent>>, <<Absent, Some("ai")>>,
               <<Absent, Some("AIMessage")>>, <<Some("user"), Some("human")>> }
\* "progress" absent, or a dict carrying the ephemeral flag
Progresses == { Absent, Some([ephemeral |-> TRUE]), Some([ephemeral |-> FALSE]) }
\* <<nested "message" value, top-level "content">>
NestedDict(c) == [isdict |-> TRUE, content |-> c]
NestedOther == [isdict |-> FALSE, content |-> Absent]
ContentShapes ==
    { <<Absent, Some(T_HELLO)>>,
      <<Absent, Some(T_EMPTY)>>,
      <<Absent, Some(T_JSON)>>,
      <<Absent, Absent>>,
      <<Some(NestedDict(Some(T_NESTED))), Some(T_HELLO)>>,
      <<Some(NestedDict(Absent)), Some(T_HELLO)>>,
      <<Some(NestedOther), Some(T_HELLO)>> }

Messages ==
    { Msg(rt[1], rt[2], p, cs[1], cs[2]) :
        rt \in RoleTypes, p \in Progresses, cs \in ContentShapes }

MaxMsgs == 2
MessageLists == UNION { [1..n -> Messages] : n \in 0..MaxMsgs }

(***************************************************************************)
(* The reducer: lines 546-585 of invoke_langgraph_agent.                   *)
(***************************************************************************)
\* msg.get("progress", {}).get("ephemeral")
IsEphemeral(msg) ==
    /\ Has(msg.progress)
    /\ Val(msg.progress).ephemeral

IsAssistant(msg) ==
    \/ msg.role = Some("assistant")
    \/ msg.type = Some("ai")
    \/ msg.type = Some("AIMessage")

\* content = None; if "message" in msg and isinstance(msg["message"], dict):
\*     content = msg["message"].get("content", "")
\* elif "content" in msg: content = msg["content"]
\* None is rendered as Absent.
ExtractContent(msg) ==
    IF Has(msg.message) /\ Val(msg.message).isdict
    THEN IF Has(Val(msg.message).content)
         THEN Val(msg.message).content
         ELSE Some(T_EMPTY)
    ELSE IF Has(msg.content) THEN msg.content ELSE Absent

\* if content and not str(content).startswith("{")
Substantial(content) ==
    /\ Has(content)
    /\ Truthy(Val(content))
    /\ ~StartsWithBrace(Val(content))

\* Selects without the ephemeral test of lines 550-552
SelectsEphemeralToo(msg) ==
    /\ IsAssistant(msg)
    /\ Substantial(ExtractContent(msg))

\* the message the loop breaks on
Selects(msg) ==
    /\ ~IsEphemeral(msg)
    /\ IsAssistant(msg)
    /\ Substantial(ExtractContent(msg))

\* for msg in reversed(final_messages): the index the loop breaks on, 0 when it
\* runs to the end
RECURSIVE ScanFrom(_, _)
ScanFrom(ms, i) ==
    IF i = 0 THEN 0
    ELSE IF Selects(ms[i]) THEN i
    ELSE ScanFrom(ms, i - 1)

ReduceIdx(ms) == ScanFrom(ms, Len(ms))

\* output_text after the "if not output_text" fallback
Reduce(ms) ==
    IF ReduceIdx(ms) = 0
    THEN FALLBACK_TEXT
    ELSE Val(ExtractContent(ms[ReduceIdx(ms)]))

(***************************************************************************)
(* The upstream stream.  A line is what line.strip() leaves: an "event:"   *)
(* line with its name, a "data:" line with its text, the empty line, or    *)
(* anything else (an SSE comment, an "id:" line), which the parser skips.  *)
(* The data texts are named: what matters is what json.loads makes of the  *)
(* texts of one event joined by "\n".                                      *)
(***************************************************************************)
EventLine(name) == [k |-> "event", v |-> name]
DataLine(text) == [k |-> "data", v |-> text]
BlankLine == [k |-> "blank", v |-> ""]
OtherLine == [k |-> "other", v |-> ""]

\* the message lists the upstream sends in "values" events
M_OLD == << Msg(Some("assistant"), Absent, Absent, Absent, Some(T_OLD)) >>
M_NEW == << Msg(Some("user"), Some("human"), Absent, Absent, Some(T_HELLO)),
            Msg(Absent, Some("ai"), Absent, Absent, Some(T_NEW)) >>

EventNames == { "metadata", "values" }
\* D_OLD  {"messages": M_OLD}      D_NEW  {"messages": M_NEW}
\* D_RUN  {"run_id": "r1"}         D_NUM  5        D_BAD  {not json
DataTexts == { "D_OLD", "D_NEW", "D_RUN", "D_NUM", "D_BAD" }
Lines == { EventLine(n) : n \in EventNames } \cup { DataLine(t) : t \in DataTexts }
            \cup { BlankLine, OtherLine }

JObject(rid, messages) == [t |-> "object", run_id |-> rid, messages |-> messages]
JNumber == [t |-> "number", run_id |-> Absent, messages |-> Absent]
JBoolean == [t |-> "boolean", run_id |-> Absent, messages |-> Absent]
JNull == [t |-> "null", run_id |-> Absent, messages |-> Absent]
JArray == [t |-> "array", run_id |-> Absent, messages |-> Absent]
JSONDecodeError == [t |-> "JSONDecodeError", run_id |-> Absent, messages |-> Absent]

\* json.loads of one text
LoadsOne(text) ==
    CASE text = "D_OLD" -> JObject(Absent, Some(M_OLD))
      [] text = "D_NEW" -> JObject(Absent, Some(M_NEW))
      [] text = "D_RUN" -> JObject(Some("r1"), Absent)
      [] text = "D_NUM" -> JNumber
      [] text = "D_TRUE" -> JBoolean
      [] text = "D_NULL" -> JNull
      [] text = "D_LIST" -> JArray
      [] OTHER          -> JSONDecodeError

\* json.loads("\n".join(current_data)): two documents, or a document and
\* garbage, separated by a newline do not decode ("Extra data")
Loads(data) ==
    IF Len(data) = 1 THEN LoadsOne(data[1]) ELSE JSONDecodeError

\* InRaises for numbers alone
InRaisesNumber(obj) == obj.t = "number"

\* `key in data_obj` raises TypeError when data_obj is a number, a boolean or
\* None; a list is searched, and holds neither key
InRaises(obj) == obj.t \in { "number", "boolean", "null" }

\* Flush with a values event appended to the snapshot instead of replacing it
FlushAppending(ev, data, rid, fm) ==
    LET keep == [raised |-> FALSE, run_id |-> rid, final_messages |-> fm]
        obj == Loads(data)
    IN  IF ~(Has(ev) /\ Val(ev) # "" /\ Len(data) > 0) THEN keep
        ELSE IF obj.t = "JSONDecodeError" THEN keep
        ELSE IF InRaises(obj) THEN [keep EXCEPT !.raised = TRUE]
        ELSE IF Val(ev) = "metadata" /\ Has(obj.run_id)
             THEN [keep EXCEPT !.run_id = obj.run_id]
        ELSE IF Val(ev) = "values" /\ Has(obj.messages)
             THEN [keep EXCEPT !.final_messages = fm \o Val(obj.messages)]
        ELSE keep

(***************************************************************************)
(* The flush of a pending event: lines 486-501 and 514-529.                *)
(* Gives the new run_id and final_messages, or raised = TRUE when the      *)
(* exception is not the JSONDecodeError the inner try catches.             *)
(***************************************************************************)
Flush(ev, data, rid, fm) ==
    LET keep == [raised |-> FALSE, run_id |-> rid, final_messages |-> fm]
        obj == Loads(data)
    IN  IF ~(Has(ev) /\ Val(ev) # "" /\ Len(data) > 0) THEN keep
        ELSE IF obj.t = "JSONDecodeError" THEN keep
        ELSE IF Val(ev) = "metadata"
             THEN IF InRaises(obj) THEN [keep EXCEPT !.raised = TRUE]
                  ELSE IF Has(obj.run_id) THEN [keep EXCEPT !.run_id = obj.run_id]
                  ELSE keep
        ELSE IF Val(ev) = "values"
             THEN IF InRaises(obj) THEN [keep EXCEPT !.raised = TRUE]
                  ELSE IF Has(obj.messages)
                       THEN [keep EXCEPT !.final_messages = Val(obj.messages)]
                  ELSE keep
        ELSE keep

\* the exceptions the body of invoke_langgraph_agent can raise; str(e) is
\* rendered by the class name
NetworkErrors == { "ConnectError", "ConnectTimeout", "ReadError", "ReadTimeout" }
\* isinstance(e, httpx.HTTPError)
IsHTTPError(e) == e \in NetworkErrors \cup { "HTTPStatusError" }

\* the envelopes invoke_langgraph_agent returns
SuccessEnvelope(text) == [isError |-> FALSE, text |-> text]
HTTPErrorEnvelope(e) == [isError |-> TRUE, text |-> <<"HTTP error invoking agent: ", e>>]
ErrorEnvelope(e) == [isError |-> TRUE, text |-> <<"Error invoking agent: ", e>>]
NoEnvelope == [isError |-> FALSE, text |-> <<>>]

\* Except with only the httpx.HTTPError block: anything else escapes
ExceptHTTPOnly(e) ==
    IF IsHTTPError(e)
    THEN [caught |-> TRUE, envelope |-> HTTPErrorEnvelope(e)]
    ELSE [caught |-> FALSE, envelope |-> NoEnvelope]

\* the except chain of lines 604-631: what the function does with exception e
Except(e) ==
    IF IsHTTPError(e)
    THEN [caught |-> TRUE, envelope |-> HTTPErrorEnvelope(e)]
    ELSE [caught |-> TRUE, envelope |-> ErrorEnvelope(e)]

(***************************************************************************)
(* invoke_langgraph_agent, lines 399-631, one step per suspension point.   *)
(***************************************************************************)
MaxLines == 5
MaxChunks == 1

\* upstream statuses: success, a redirect (not followed), client and server errors
Statuses == { 200, 302, 400, 503 }

\* the states the other two specifications leave untouched
ServerIdle ==
    /\ cfg = [OAUTH_ENABLED |-> FALSE, API_KEYS |-> {}, OKTA_INTROSPECT_URL |-> FALSE,
              OAUTH_TOKEN_EXPIRY |-> 0]
    /\ now = 0
    /\ active_tokens = <<>>
    /\ issued = 0
    /\ req = [pc |-> "idle"]
    /\ tokenResp = [status |-> 0, error |-> "", access_token |-> <<>>]
StreamIdle ==
    /\ pc = "idle"
    /\ status = 0
    /\ lines = <<>>
    /\ run_id = Absent
    /\ final_messages = <<>>
    /\ current_event = Absent
    /\ current_data = <<>>
    /\ envelope = NoEnvelope
    /\ error_chunks = 0
    /\ error_text = 0
    /\ exc = Absent
ReduceIdle ==
    /\ msgs = <<>>
    /\ selected = 0
    /\ output_text = Absent
AgentIdle ==
    /\ tools = <<>>
    /\ message_handlers = <<>>
    /\ ran = {}
    /\ returned = Absent
MiddlewareIdle ==
    /\ oauth_config = [auth_enabled |-> FALSE, api_keys |-> {}]
    /\ cookie = Absent
    /\ scope = [type |-> "idle"]
    /\ sent = Absent

InitStream ==
    /\ AgentIdle
    /\ MiddlewareIdle
    /\ ServerIdle
    /\ ReduceIdle
    /\ pc = "start"
    /\ status = 0
    /\ lines = <<>>
    /\ run_id = Absent
    /\ final_messages = <<>>
    /\ current_event = Absent
    /\ current_data = <<>>
    /\ envelope = NoEnvelope
    /\ error_chunks = 0
    /\ error_text = 0
    /\ exc = Absent

parserVars == <<lines, run_id, final_messages, current_event, current_data>>

\* exception e is raised inside the try block of line 399
Raise(e) ==
    /\ exc' = Some(e)
    /\ IF Except(e).caught
       THEN pc' = "done" /\ envelope' = Except(e).envelope
       ELSE pc' = "raised" /\ UNCHANGED envelope

\* client.stream(...) raised before a response arrived: connection refused,
\* or the 120 s timeout
ConnectFails(e) ==
    /\ pc = "start"
    /\ Raise(e)
    /\ UNCHANGED <<status, parserVars, error_chunks, error_text>>

\* RejectsStatus testing for server errors only
RejectsServerErrors(s) == s >= 500

\* line 457: if response.status_code >= 400
RejectsStatus(s) == s >= 400

\* response.is_success, which raise_for_status() of line 472 tests
IsSuccess(s) == 200 <= s /\ s <= 299

\* the response head arrived, lines 453-479
UpstreamResponds(s, n) ==
    /\ pc = "start"
    /\ status' = s
    /\ error_chunks' = IF IsSuccess(s) THEN 0 ELSE n
    /\ IF RejectsStatus(s)
       THEN pc' = "drain" /\ UNCHANGED <<envelope, exc>>
       ELSE IF ~IsSuccess(s)
       THEN Raise("HTTPStatusError")
       ELSE pc' = "parse" /\ UNCHANGED <<envelope, exc>>
    /\ UNCHANGED <<parserVars, error_text>>

\* lines 459-460: async for chunk in response.aiter_bytes()
DrainChunk ==
    /\ pc = "drain"
    /\ error_chunks > 0
    /\ error_chunks' = error_chunks - 1
    /\ error_text' = error_text + 1
    /\ UNCHANGED <<pc, status, parserVars, envelope, exc>>

\* the connection broke while the error body was read
DrainFails(e) ==
    /\ pc = "drain"
    /\ error_chunks > 0
    /\ Raise(e)
    /\ UNCHANGED <<status, parserVars, error_chunks, error_text>>

\* lines 461-470: the body is read; error_text.decode() may raise
\* UnicodeDecodeError, otherwise HTTPStatusError is raised
DrainDone(decodes) ==
    /\ pc = "drain"
    /\ error_chunks = 0
    /\ Raise(IF decodes THEN "HTTPStatusError" ELSE "UnicodeDecodeError")
    /\ UNCHANGED <<status, parserVars, error_chunks, error_text>>

\* one iteration of the loop of lines 481-531
RecvLine(l) ==
    /\ pc = "parse"
    /\ Len(lines) < MaxLines
    /\ lines' = Append(lines, l)
    /\ LET f == Flush(current_event, current_data, run_id, final_messages)
       IN  CASE l.k = "event" ->
                  IF f.raised
                  THEN /\ Raise("TypeError")
                       /\ UNCHANGED <<run_id, final_messages, current_event, current_data>>
                  ELSE /\ run_id' = f.run_id
                       /\ final_messages' = f.final_messages
                       /\ current_event' = Some(l.v)
                       /\ current_data' = <<>>
                       /\ UNCHANGED <<pc, envelope, exc>>
             [] l.k = "data" ->
                  /\ current_data' = Append(current_data, l.v)
                  /\ UNCHANGED <<pc, envelope, exc, run_id, final_messages, current_event>>
             [] l.k = "blank" ->
                  IF f.raised
                  THEN /\ Raise("TypeError")
                       /\ UNCHANGED <<run_id, final_messages, current_event, current_data>>
                  ELSE /\ run_id' = f.run_id
                       /\ final_messages' = f.final_messages
                       /\ current_event' = Absent
                       /\ current_data' = <<>>
                       /\ UNCHANGED <<pc, envelope, exc>>
             [] OTHER ->
                  UNCHANGED <<pc, envelope, exc, run_id, final_messages, current_event,
                              current_data>>
    /\ UNCHANGED <<status, error_chunks, error_text>>

\* response.aiter_lines() raised: the connection broke or the read timed out
StreamFails(e) ==
    /\ pc = "parse"
    /\ Raise(e)
    /\ UNCHANGED <<status, parserVars, error_chunks, error_text>>

\* StreamEnds flushing the event that is pending when the stream ends
StreamEndsFlushing ==
    LET f == Flush(current_event, current_data, run_id, final_messages)
    IN  /\ pc = "parse"
        /\ pc' = "done"
        /\ run_id' = f.run_id
        /\ final_messages' = f.final_messages
        /\ envelope' = SuccessEnvelope(Reduce(f.final_messages))
        /\ UNCHANGED <<status, lines, current_event, current_data, error_chunks,
                       error_text, exc>>

\* the stream ended: the reducer runs and the envelope is built, lines 533-602
StreamEnds ==
    /\ pc = "parse"
    /\ pc' = "done"
    /\ envelope' = SuccessEnvelope(Reduce(final_messages))
    /\ UNCHANGED <<status, parserVars, error_chunks, error_text, exc>>

NextStream ==
    \/ \E e \in {"ConnectError", "ConnectTimeout"} :
          ConnectFails(e) /\ UNCHANGED <<serverVars, reduceVars, agentVars, middlewareVars>>
    \/ \E s \in Statuses, n \in 0..MaxChunks :
          UpstreamResponds(s, n) /\ UNCHANGED <<serverVars, reduceVars, agentVars, middlewareVars>>
    \/ DrainChunk /\ UNCHANGED <<serverVars, reduceVars, agentVars, middlewareVars>>
    \/ \E e \in {"ReadError", "ReadTimeout"} :
          DrainFails(e) /\ UNCHANGED <<serverVars, reduceVars, agentVars, middlewareVars>>
    \/ \E decodes \in BOOLEAN : DrainDone(decodes) /\ UNCHANGED <<serverVars, reduceVars, agentVars, middlewareVars>>
    \/ \E l \in Lines : RecvLine(l) /\ UNCHANGED <<serverVars, reduceVars, agentVars, middlewareVars>>
    \/ \E e \in {"ReadError", "ReadTimeout"} :
          StreamFails(e) /\ UNCHANGED <<serverVars, reduceVars, agentVars, middlewareVars>>
    \/ StreamEnds /\ UNCHANGED <<serverVars, reduceVars, agentVars, middlewareVars>>

SpecStream == InitStream /\ [][NextStream]_vars

(***************************************************************************)
(* The frames of a line sequence, read off the sequence as a whole: a      *)
(* frame ends at an "event:" line or an empty line, and belongs to the     *)
(* "event:" line that is the nearest frame end before it.                  *)
(***************************************************************************)
EndsFrame(L, j) == L[j].k \in { "event", "blank" }

\* the nearest frame end before j, 0 when there is none
PrevEnd(L, j) ==
    LET before == { i \in 1..(j - 1) : EndsFrame(L, i) }
    IN  IF before = {} THEN 0 ELSE CHOOSE i \in before : \A h \in before : h <= i

IsDataLine(l) == l.k = "data"

\* the data texts of the lines strictly between i and j
DataBetween(L, i, j) ==
    LET ds == SelectSeq(SubSeq(L, i + 1, j - 1), IsDataLine)
    IN  [n \in 1..Len(ds) |-> ds[n].v]

\* line j ends a values event whose data decodes to an object with messages
WellFormedValues(L, j) ==
    LET i == PrevEnd(L, j)
    IN  /\ EndsFrame(L, j)
        /\ i > 0
        /\ L[i] = EventLine("values")
        /\ Len(DataBetween(L, i, j)) > 0
        /\ Loads(DataBetween(L, i, j)).t = "object"
        /\ Has(Loads(DataBetween(L, i, j)).messages)

\* line j ends a metadata or values event whose data does not decode
UndecodableFrame(L, j) ==
    LET i == PrevEnd(L, j)
    IN  /\ EndsFrame(L, j)
        /\ i > 0
        /\ L[i].k = "event"
        /\ Len(DataBetween(L, i, j)) > 0
        /\ Loads(DataBetween(L, i, j)).t = "JSONDecodeError"

\* the messages of the last well-formed values event, [] when there is none
LastValues(L) ==
    LET ends == { j \in 1..Len(L) : WellFormedValues(L, j) }
        last == CHOOSE j \in ends : \A h \in ends : h <= j
    IN  IF ends = {} THEN <<>>
        ELSE Val(Loads(DataBetween(L, PrevEnd(L, last), last)).messages)

\* C1: after any sequence of lines, the message snapshot is the messages list
\* of the last well-formed values event among them (nothing of an earlier
\* snapshot is kept, undecodable frames before or after it change nothing),
\* and a completed stream is reduced from exactly that list.
C1_LastSnapshotWins ==
    /\ final_messages = LastValues(lines)
    /\ (pc = "done" /\ ~Has(exc)) => envelope.text = Reduce(LastValues(lines))

\* a completed stream in which a well-formed values event replaced an earlier
\* snapshot and an undecodable frame followed it
C1_Witness ==
    /\ pc = "done"
    /\ ~Has(exc)
    /\ final_messages = M_NEW
    /\ \E j, h \in 1..Len(lines) :
          /\ j < h
          /\ WellFormedValues(lines, j)
          /\ UndecodableFrame(lines, h)

\* C9: an upstream status of 400 or more never reaches the parser or the
\* reducer: no line is fed, the snapshot stays empty, the error body is read
\* to its end before HTTPStatusError is raised, and the envelope is an error.
C9_UpstreamRejected ==
    status >= 400 =>
        /\ pc # "parse"
        /\ lines = <<>>
        /\ final_messages = <<>>
        /\ pc = "done" => /\ envelope.isError
                          /\ Has(exc)
                          /\ Val(exc) = "HTTPStatusError" => error_chunks = 0

\* a 503 whose body was drained and answered with an error envelope
C9_Witness ==
    /\ status = 503
    /\ pc = "done"
    /\ error_text > 0
    /\ error_chunks = 0
    /\ envelope = HTTPErrorEnvelope("HTTPStatusError")

\* C10: the function never lets an exception escape; it ends with
\* isError=false and the reduced text of the whole stream when the stream
\* completed, and with isError=true and an error text (never a reduced,
\* partial result) when anything failed, a timeout like any network error.
C10_AlwaysEnvelope ==
    /\ pc # "raised"
    /\ pc = "done" =>
          IF Has(exc)
          THEN /\ envelope.isError
               /\ envelope.text \in { <<"HTTP error invoking agent: ", Val(exc)>>,
                                      <<"Error invoking agent: ", Val(exc)>> }
               /\ Val(exc) \in NetworkErrors =>
                      envelope.text[1] = "HTTP error invoking agent: "
          ELSE /\ ~envelope.isError
               /\ envelope.text = Reduce(final_messages)

\* a stream that had delivered a snapshot and then failed, by a TypeError in
\* the parser; no text of the snapshot is returned
C10_Witness ==
    /\ pc = "done"
    /\ exc = Some("TypeError")
    /\ final_messages = M_OLD
    /\ envelope = ErrorEnvelope("TypeError")

(***************************************************************************)
(* The reducer on its own: any message list, then the scan.                *)
(***************************************************************************)
InitReduce ==
    /\ AgentIdle
    /\ MiddlewareIdle
    /\ ServerIdle
    /\ StreamIdle
    /\ msgs \in MessageLists
    /\ selected = 0
    /\ output_text = Absent

\* lines 546-585 applied to msgs
RunReducer ==
    /\ output_text = Absent
    /\ selected' = ReduceIdx(msgs)
    /\ output_text' = Some(Reduce(msgs))
    /\ UNCHANGED msgs

NextReduce == RunReducer /\ UNCHANGED <<serverVars, streamVars, agentVars, middlewareVars>>

SpecReduce == InitReduce /\ [][NextReduce]_vars

\* the flag as the upstream sets it: "progress": {"ephemeral": true}
FlaggedEphemeral(msg) == msg.progress = Some([ephemeral |-> TRUE])

AssistantAuthored(msg) ==
    \/ msg.role = Some("assistant")
    \/ msg.type \in { Some("ai"), Some("AIMessage") }

\* C7: the message the reducer takes its text from is never one flagged
\* ephemeral, and when the list's only assistant message is flagged ephemeral
\* the reducer returns the fallback text.
C7_NeverEphemeral ==
    Has(output_text) =>
        /\ selected # 0 => ~FlaggedEphemeral(msgs[selected])
        /\ LET assistants == { i \in 1..Len(msgs) : AssistantAuthored(msgs[i]) }
           IN  (/\ Cardinality(assistants) = 1
                /\ \A i \in assistants : FlaggedEphemeral(msgs[i]))
               => output_text = Some(FALLBACK_TEXT)

\* the only assistant message is ephemeral and carries presentable content,
\* after a user message; the reducer answered with the fallback
C7_Witness ==
    /\ msgs = << Msg(Some("user"), Some("human"), Absent, Absent, Some(T_HELLO)),
                 Msg(Some("assistant"), Absent, Some([ephemeral |-> TRUE]), Absent,
                     Some(T_HELLO)) >>
    /\ output_text = Some(FALLBACK_TEXT)

\* the content of a message as C8 words it: the nested message.content when
\* the message has one, otherwise the top-level content
ClaimedContent(msg) ==
    IF Has(msg.message) /\ Val(msg.message).isdict /\ Has(Val(msg.message).content)
    THEN Val(msg.message).content
    ELSE msg.content

Presentable(content) ==
    /\ Has(content)
    /\ Val(content) # <<>>
    /\ Val(content)[1] # "{"

\* C8: when exactly one message of the list is a non-ephemeral assistant
\* message with non-empty content that does not start with "{", the reducer
\* returns exactly that content.
C8_SingleAssistantVerbatim ==
    Has(output_text) =>
        LET good == { i \in 1..Len(msgs) :
                        /\ AssistantAuthored(msgs[i])
                        /\ ~FlaggedEphemeral(msgs[i])
                        /\ Presentable(ClaimedContent(msgs[i])) }
        IN  Cardinality(good) = 1 =>
                \A i \in good : output_text = ClaimedContent(msgs[i])

(***************************************************************************)
(* The server.  Configuration is read from the environment once, lines     *)
(* 40-65; the model draws it in Init.                                      *)
(***************************************************************************)
MaxTTL == 2
MaxTime == 3
MaxTokens == 2

OAUTH_CLIENT_ID == "test-client"
OAUTH_CLIENT_SECRET == "test-secret"
SERVER_URL == "http://localhost:8001"
\* line 54 with its default, and line 61 with OKTA_DOMAIN unset
OAUTH_AUTHORIZE_URL == <<SERVER_URL, "/oauth/authorize">>
OKTA_AUTHORIZE_URL == <<>>

\* secrets.token_urlsafe(32): the n-th value it returns.  256 random bits do
\* not repeat and do not hit a configured API key.
Token(n) == <<"token_urlsafe", n>>
ApiKey == <<"api-key", 1>>
\* a bearer value this server neither issued nor has configured
Foreign == <<"foreign", 1>>

\* what HTTPBearer(auto_error=False) hands to verify_token: None, or the
\* bearer value
Credentials ==
    { Absent, Some(ApiKey), Some(Foreign) } \cup { Some(Token(n)) : n \in 1..MaxTokens }

Configs ==
    [ OAUTH_ENABLED : BOOLEAN,
      API_KEYS : { {}, {ApiKey} },
      OKTA_INTROSPECT_URL : BOOLEAN,
      OAUTH_TOKEN_EXPIRY : 0..MaxTTL ]

\* a or b, of two strings
Or(a, b) == IF a # <<>> THEN a ELSE b

\* lines 156-162, 207-213 and 263-269
ReauthUrl ==
    << Or(OKTA_AUTHORIZE_URL, OAUTH_AUTHORIZE_URL), "?client_id=", OAUTH_CLIENT_ID,
       "&response_type=code&scope=openid%20profile%20email&redirect_uri=",
       SERVER_URL, "/oauth/callback" >>

\* FastAPI's answer to raise HTTPException(status_code, detail, headers)
HTTPException(code, detail, headers) ==
    [status |-> code, headers |-> headers, detail |-> detail]

\* lines 164-178
MissingCredentialResponse ==
    HTTPException(401,
        <<"invalid_token: Authentication required. Please authenticate here: ", ReauthUrl>>,
        [WWW_Authenticate |-> Some("Authentication required"),
         X_Reauth_URL |-> Some(ReauthUrl)])

\* lines 214-228
ExpiredTokenResponse ==
    HTTPException(401,
        <<"invalid_token: The access token expired. Please re-authenticate: ", ReauthUrl>>,
        [WWW_Authenticate |-> Some("The access token expired"),
         X_Reauth_URL |-> Some(ReauthUrl)])

\* InvalidTokenResponse as a bare 403
InvalidTokenForbidden ==
    HTTPException(403, <<"Not authenticated">>,
        [WWW_Authenticate |-> Absent, X_Reauth_URL |-> Absent])

\* lines 271-285
InvalidTokenResponse ==
    HTTPException(401,
        <<"invalid_token: The access token is invalid. Please re-authenticate: ", ReauthUrl>>,
        [WWW_Authenticate |-> Some("The access token is invalid"),
         X_Reauth_URL |-> Some(ReauthUrl)])

NoResponse == [status |-> 0]

\* what verify_token returns: True, an entry of the table, or one of two dicts
Auth(py, type, client_id, token_info) ==
    [py |-> py, type |-> type, client_id |-> client_id, token_info |-> token_info]
NoAuth == Auth("none", Absent, Absent, Absent)
AuthTrue == Auth("bool", Absent, Absent, Absent)
TokenDataAuth(entry) == Auth("dict", Absent, Some(entry.client_id), Absent)
\* ApiKeyAuth naming the configured client as its subject
ApiKeyAuthWithSubject == Auth("dict", Some("api_key"), Some(OAUTH_CLIENT_ID), Absent)

\* lines 236-240
ApiKeyAuth == Auth("dict", Some("api_key"), Absent, Absent)
OktaAuth(info) == Auth("dict", Some("okta_token"), Absent, Some(info))

\* the outcome of the part of verify_token that runs without suspension:
\* a return, a raise, or the await of line 247
Verdict(kind, auth, failure, response, tokens) ==
    [kind |-> kind, auth |-> auth, failure |-> failure, response |-> response,
     tokens |-> tokens]

\* Unexpired with the instant of expiry still accepted
UnexpiredInclusive(token_data, t) == token_data.expires_at >= t

\* line 197: token_data["expires_at"] > time.time()
Unexpired(token_data, t) == token_data.expires_at > t

\* del active_tokens[token]
Del(tokens, token) == [t \in DOMAIN tokens \ {token} |-> tokens[t]]

(***************************************************************************)
(* verify_token, lines 137-285, up to its only suspension point (the       *)
(* await of validate_okta_token, line 247).  t is time.time() of line 197. *)
(***************************************************************************)
VerifyToken(credentials, tokens, t) ==
    IF ~cfg.OAUTH_ENABLED
    THEN Verdict("return", AuthTrue, "none", NoResponse, tokens)
    ELSE IF ~Has(credentials)
    THEN Verdict("raise", NoAuth, "missing", MissingCredentialResponse, tokens)
    ELSE LET token == Val(credentials)
         IN  IF token \in DOMAIN tokens
             THEN IF Unexpired(tokens[token], t)
                  THEN Verdict("return", TokenDataAuth(tokens[token]), "none",
                               NoResponse, tokens)
                  ELSE Verdict("raise", NoAuth, "expired", ExpiredTokenResponse,
                               Del(tokens, token))
             ELSE IF cfg.API_KEYS # {} /\ token \in cfg.API_KEYS
             THEN Verdict("return", ApiKeyAuth, "none", NoResponse, tokens)
             ELSE IF cfg.OKTA_INTROSPECT_URL
             THEN Verdict("await", NoAuth, "none", NoResponse, tokens)
             ELSE Verdict("raise", NoAuth, "invalid", InvalidTokenResponse, tokens)

\* what the introspection endpoint can answer; status 0 is a network error
\* the claims of an introspected token that execute_tool reads; a claim is
\* missing, or a string that may be empty
TokenInfo(sub, uid, username, email, client_id) ==
    [sub |-> sub, uid |-> uid, username |-> username, email |-> email,
     client_id |-> client_id]
NoInfo == TokenInfo(Absent, Absent, Absent, Absent, Absent)
OktaInfos ==
    { TokenInfo(Some("user-1"), Absent, Absent, Some("u@example.com"), Absent),
      TokenInfo(Some(""), Absent, Absent, Some("u@example.com"), Some("okta-client")),
      NoInfo }
Outcome(code, active, info) == [status |-> code, active |-> active, info |-> info]
OktaOutcomes ==
    { Outcome(200, TRUE, info) : info \in OktaInfos }
        \cup { Outcome(200, FALSE, NoInfo), Outcome(401, FALSE, NoInfo),
               Outcome(0, FALSE, NoInfo) }
NoOutcome == Outcome(-1, FALSE, NoInfo)

\* ValidateOktaToken without the check of the active flag
ValidateOktaTokenLenient(outcome) ==
    IF outcome.status = 200 THEN Some(outcome.info) ELSE Absent

\* validate_okta_token, lines 96-134: the token info, or None
ValidateOktaToken(outcome) ==
    IF outcome.status = 200 /\ outcome.active THEN Some(outcome.info) ELSE Absent

(***************************************************************************)
(* POST /mcp, lines 1409-1634, and execute_tool, lines 887-1008.           *)
(***************************************************************************)
\* a request body: bytes that are not UTF-8, not JSON, a JSON array, or an
\* object with these entries; the method is the sequence of its
\* "/"-separated parts; illtyped names the entry, if any, that is a JSON
\* array where the handler expects a string or an object
Body(json, method, name, text) ==
    [json |-> json, id |-> Some(1), method |-> method, name |-> name, text |-> text,
     thread_id |-> Absent, conversationId |-> Absent, illtyped |-> "none",
     assistant_id |-> Absent]
B_BADJSON == Body("invalid", <<>>, Absent, <<>>)
B_ARRAY == Body("array", <<>>, Absent, <<>>)
B_INITIALIZE == Body("object", <<"initialize">>, Absent, <<>>)
B_LIST == Body("object", <<"tools", "list">>, Absent, <<>>)
B_NOTIFY == Body("object", <<"notifications", "initialized">>, Absent, <<>>)
B_UNKNOWN == Body("object", <<"resources", "list">>, Absent, <<>>)
B_NONAME == Body("object", <<"tools", "call">>, Absent, <<>>)
B_ECHO == Body("object", <<"tools", "call">>, Some("echo"), T_HELLO)
B_INVOKE == Body("object", <<"tools", "call">>, Some("invoke_agent"), T_HELLO)
B_NOTOOL == Body("object", <<"tools", "call">>, Some("no_such_tool"), <<>>)
\* invoke_agent with the caller's thread and conversation ids, and with
\* empty ones
B_INVOKE_IDS ==
    [B_INVOKE EXCEPT !.thread_id = Some("thread-1"), !.conversationId = Some("conv-1")]
B_INVOKE_EMPTY == [B_INVOKE EXCEPT !.thread_id = Some(""), !.conversationId = Some("")]
B_BADUTF8 == Body("undecodable", <<>>, Absent, <<>>)
B_METHOD_ARRAY == [B_LIST EXCEPT !.illtyped = "method"]
B_PARAMS_ARRAY == [B_ECHO EXCEPT !.illtyped = "params"]
B_ARGUMENTS_ARRAY == [B_ECHO EXCEPT !.illtyped = "arguments"]
Bodies == { B_BADJSON, B_ARRAY, B_INITIALIZE, B_LIST, B_NOTIFY, B_UNKNOWN, B_NONAME,
            B_ECHO, B_INVOKE, B_NOTOOL, B_INVOKE_IDS, B_INVOKE_EMPTY, B_BADUTF8,
            B_METHOD_ARRAY, B_PARAMS_ARRAY, B_ARGUMENTS_ARRAY }

\* JSONResponse(status_code, {"jsonrpc": "2.0", "id", "error": {"code"} | "result"})
JsonRpc(code, id, error, result) ==
    [status |-> code, id |-> id, error |-> error, result |-> result]
NoResult == [isError |-> FALSE, text |-> <<>>]
StaticResult(what) == [isError |-> FALSE, text |-> <<what>>]
FailedResult(error) == [status |-> "failed", error |-> error]

\* result.get("status") == "failed"
Failed(result) == "status" \in DOMAIN result /\ result.status = "failed"

\* bool(x) of an optional string: None and "" are falsy
NonEmpty(opt) == Has(opt) /\ Val(opt) # ""

\* a or b or ... : the first truthy operand, else the last operand
RECURSIVE OrChain(_)
OrChain(operands) ==
    IF Len(operands) = 1 \/ NonEmpty(Head(operands))
    THEN Head(operands)
    ELSE OrChain(Tail(operands))

\* lines 904-916: the user id taken from the auth context; auth.get raises
\* AttributeError when auth is the True of line 148
UserId(auth) ==
    IF Has(auth.token_info)
    THEN LET token_info == Val(auth.token_info)
         IN  OrChain(<<token_info.sub, token_info.uid, token_info.username,
                       token_info.email, token_info.client_id>>)
    ELSE Absent

\* execute_tool: a result, the await of an upstream call, or an exception
ExecuteTool(tool_name, text, auth, arguments_is_dict) ==
    IF auth.py = "bool" \/ ~arguments_is_dict
    THEN [kind |-> "raise", result |-> NoResult, user_id |-> Absent]
    ELSE IF tool_name = "echo"
    THEN [kind |-> "return", result |-> SuccessEnvelope(text), user_id |-> UserId(auth)]
    ELSE IF tool_name \in {"invoke_agent", "stream_agent"}
    THEN [kind |-> "await", result |-> NoResult, user_id |-> UserId(auth)]
    ELSE IF tool_name = "check_agent_status"
    THEN IF text = <<>>
         THEN [kind |-> "return", result |-> FailedResult("agent_name is required"),
               user_id |-> UserId(auth)]
         ELSE [kind |-> "await", result |-> NoResult, user_id |-> UserId(auth)]
    ELSE [kind |-> "return", result |-> FailedResult("Unknown tool"),
          user_id |-> UserId(auth)]

\* lines 1538-1574: the answer to a tools/call whose tool returned result
ToolResponse(body, result) ==
    IF Failed(result)
    THEN JsonRpc(500, body.id, -32603, NoResult)
    ELSE JsonRpc(200, body.id, 0, result)

\* method.startswith("notifications/")
IsNotification(method) == Len(method) >= 2 /\ method[1] = "notifications"

\* Starlette's answer to an exception that leaves the handler
PlainServerError == [status |-> 500, text |-> "Internal Server Error"]

\* mcp_endpoint up to its response, or up to the await of the upstream call
McpEndpoint(body, auth) ==
    LET respond(r) == [kind |-> "respond", response |-> r, user_id |-> Absent]
        tool == ExecuteTool(Val(body.name), body.text, auth, body.illtyped # "arguments")
    IN  IF body.json = "undecodable"
        THEN respond(PlainServerError)
        ELSE IF body.json = "invalid"
        THEN respond(JsonRpc(400, Some("error"), -32700, NoResult))
        ELSE IF body.json # "object"
        THEN respond(JsonRpc(400, Some("error"), -32600, NoResult))
        ELSE IF body.illtyped = "method"
        THEN respond(JsonRpc(500, body.id, -32603, NoResult))
        ELSE IF IsNotification(body.method)
        THEN respond([status |-> 204])
        ELSE IF body.method = <<"initialize">>
        THEN respond(JsonRpc(200, body.id, 0, StaticResult("protocolVersion")))
        ELSE IF body.method = <<"tools", "call">>
        THEN IF body.illtyped = "params"
             THEN respond(JsonRpc(500, body.id, -32603, NoResult))
             ELSE IF ~Has(body.name)
             THEN respond(JsonRpc(400, body.id, -32602, NoResult))
             ELSE IF tool.kind = "raise"
             THEN respond(JsonRpc(500, body.id, -32603, NoResult))
             ELSE IF tool.kind = "await"
             THEN [kind |-> "await", response |-> NoResponse, user_id |-> tool.user_id]
             ELSE respond(ToolResponse(body, tool.result))
        ELSE IF body.method = <<"tools", "list">>
        THEN respond(JsonRpc(200, body.id, 0, StaticResult("tools")))
        ELSE respond(JsonRpc(400, body.id, -32601, NoResult))

(***************************************************************************)
(* POST /oauth/token, lines 1015-1091.                                     *)
(***************************************************************************)
TokenBody(json, grant_type, client_id, client_secret) ==
    [json |-> json, grant_type |-> grant_type, client_id |-> client_id,
     client_secret |-> client_secret]
TokenBodies ==
    { TokenBody("invalid", "", "", ""),
      TokenBody("array", "", "", ""),
      TokenBody("object", "client_credentials", OAUTH_CLIENT_ID, OAUTH_CLIENT_SECRET),
      TokenBody("object", "password", OAUTH_CLIENT_ID, OAUTH_CLIENT_SECRET),
      TokenBody("object", "client_credentials", "", OAUTH_CLIENT_SECRET),
      TokenBody("object", "client_credentials", OAUTH_CLIENT_ID, "guess") }

TokenResponse(code, error, access_token) ==
    [status |-> code, error |-> error, access_token |-> access_token]

\* the checks of lines 1018-1070: the error response, or status 200; on a
\* JSON body that is not an object body.get raises and nothing catches it
TokenRequestCheck(body) ==
    IF ~cfg.OAUTH_ENABLED THEN TokenResponse(400, "unsupported_grant_type", Absent)
    ELSE IF body.json = "invalid" THEN TokenResponse(400, "invalid_request", Absent)
    ELSE IF body.json # "object" THEN TokenResponse(500, "Internal Server Error", Absent)
    ELSE IF body.grant_type # "client_credentials"
    THEN TokenResponse(400, "unsupported_grant_type", Absent)
    ELSE IF body.client_id = "" \/ body.client_secret = ""
    THEN TokenResponse(400, "invalid_request", Absent)
    ELSE IF body.client_id # OAUTH_CLIENT_ID \/ body.client_secret # OAUTH_CLIENT_SECRET
    THEN TokenResponse(401, "invalid_client", Absent)
    ELSE TokenResponse(200, "", Absent)

\* lines 1077-1082: the entry stored for a token issued at time t
TokenEntry(client_id, t) ==
    [client_id |-> client_id, scope |-> "mcp:access",
     expires_at |-> t + cfg.OAUTH_TOKEN_EXPIRY, created_at |-> t]

\* Put that rebinds the table to a dict holding the new entry alone
PutAlone(tokens, token, entry) == [t \in {token} |-> entry]

\* active_tokens[access_token] = entry
Put(tokens, token, entry) ==
    [t \in DOMAIN tokens \cup {token} |-> IF t = token THEN entry ELSE tokens[t]]

(***************************************************************************)
(* The server specification.  One POST /mcp request is in service at a     *)
(* time; the clock, POST /oauth/token and the introspection endpoint run   *)
(* between its suspension points.                                          *)
(***************************************************************************)
\* the payload invoke_langgraph_agent posts to /runs/stream, lines 400-436;
\* an absent key is Absent
Payload(assistant_id, prompt, userId, conversationId, thread_id) ==
    [assistant_id |-> assistant_id, prompt |-> prompt, userId |-> userId,
     conversationId |-> conversationId, thread_id |-> thread_id]
NoPayload == Payload("", <<>>, Absent, Absent, Absent)

\* f"thread-{secrets.token_urlsafe(16)}" and f"conv-{secrets.token_urlsafe(16)}"
GeneratedThreadId == "thread-token_urlsafe"
GeneratedConversationId == "conv-token_urlsafe"

InvokePayload(prompt, assistant_id, thread_id, user_id, conversation_id) ==
    Payload(assistant_id, prompt,
            IF NonEmpty(user_id) THEN user_id ELSE Absent,
            IF NonEmpty(conversation_id) THEN conversation_id
                                         ELSE Some(GeneratedConversationId),
            IF NonEmpty(thread_id) THEN thread_id ELSE Some(GeneratedThreadId))

Req(p, cred, body, auth, failure, okta, resp) ==
    [pc |-> p, cred |-> cred, body |-> body, auth |-> auth, failure |-> failure,
     okta |-> okta, resp |-> resp, payload |-> NoPayload]
NoBody == Body("none", <<>>, Absent, <<>>)
IdleReq == Req("idle", Absent, NoBody, NoAuth, "none", NoOutcome, NoResponse)

\* what invoke_langgraph_agent can hand back to execute_tool
AgentEnvelopes ==
    { SuccessEnvelope(T_HELLO), HTTPErrorEnvelope("ConnectError"), ErrorEnvelope("TypeError") }

Init ==
    /\ AgentIdle
    /\ MiddlewareIdle
    /\ StreamIdle
    /\ ReduceIdle
    /\ cfg \in Configs
    /\ now = 0
    /\ active_tokens = <<>>
    /\ issued = 0
    /\ req = IdleReq
    /\ tokenResp = TokenResponse(0, "", Absent)

\* time.time() advances
Tick ==
    /\ now < MaxTime
    /\ now' = now + 1
    /\ UNCHANGED <<cfg, active_tokens, issued, req, tokenResp, streamVars, reduceVars, agentVars, middlewareVars>>

\* POST /oauth/token with this body
OauthToken(body) ==
    LET check == TokenRequestCheck(body)
        access_token == Token(issued + 1)
    IN  /\ IF check.status # 200
           THEN /\ tokenResp' = check
                /\ UNCHANGED <<active_tokens, issued>>
           ELSE /\ issued < MaxTokens
                /\ issued' = issued + 1
                /\ active_tokens' =
                       Put(active_tokens, access_token, TokenEntry(body.client_id, now))
                /\ tokenResp' = TokenResponse(200, "", Some(access_token))
        /\ UNCHANGED <<cfg, now, req, streamVars, reduceVars, agentVars, middlewareVars>>

\* POST /mcp arrives: the dependency verify_token runs to its return, its
\* raise, or its await of the introspection call
McpRequest(credentials, body) ==
    LET v == VerifyToken(credentials, active_tokens, now)
    IN  /\ req.pc = "idle"
        /\ active_tokens' = v.tokens
        /\ req' = Req(CASE v.kind = "return" -> "authed"
                        [] v.kind = "raise" -> "done"
                        [] v.kind = "await" -> "introspecting",
                      credentials, body, v.auth, v.failure, NoOutcome, v.response)
        /\ UNCHANGED <<cfg, now, issued, tokenResp, streamVars, reduceVars, agentVars, middlewareVars>>

\* lines 247-285: the introspection call comes back
OktaResponds(outcome) ==
    LET token_info == ValidateOktaToken(outcome)
    IN  /\ req.pc = "introspecting"
        /\ req' = IF Has(token_info)
                  THEN [req EXCEPT !.pc = "authed", !.okta = outcome,
                                   !.auth = OktaAuth(Val(token_info))]
                  ELSE [req EXCEPT !.pc = "done", !.okta = outcome,
                                   !.failure = "invalid", !.resp = InvalidTokenResponse]
        /\ UNCHANGED <<cfg, now, active_tokens, issued, tokenResp, streamVars, reduceVars,
                       agentVars, middlewareVars>>

\* AssistantId taking the caller's assistant_id argument when there is one
AssistantIdRequested(requested) ==
    IF NonEmpty(requested) THEN Val(requested) ELSE "supervisor"

\* execute_tool lines 959 and 970: assistant_id = "supervisor", whatever the
\* arguments hold
AssistantId(requested) == "supervisor"

\* McpHandle entered while the dependency is still awaiting introspection
McpHandleUnguarded ==
    LET r == McpEndpoint(req.body, req.auth)
    IN  /\ req.pc \in {"authed", "introspecting"}
        /\ req' = IF r.kind = "respond"
                  THEN [req EXCEPT !.pc = "done", !.resp = r.response]
                  ELSE [req EXCEPT !.pc = "upstream",
                                   !.payload = InvokePayload(req.body.text,
                                                   AssistantId(req.body.assistant_id),
                                                   req.body.thread_id, r.user_id,
                                                   req.body.conversationId)]
        /\ UNCHANGED <<cfg, now, active_tokens, issued, tokenResp, streamVars, reduceVars,
                       agentVars, middlewareVars>>

\* mcp_endpoint runs with the auth context the dependency returned
McpHandle ==
    LET r == McpEndpoint(req.body, req.auth)
    IN  /\ req.pc = "authed"
        /\ req' = IF r.kind = "respond"
                  THEN [req EXCEPT !.pc = "done", !.resp = r.response]
                  ELSE [req EXCEPT !.pc = "upstream",
                                   !.payload = InvokePayload(req.body.text,
                                                   AssistantId(req.body.assistant_id),
                                                   req.body.thread_id, r.user_id,
                                                   req.body.conversationId)]
        /\ UNCHANGED <<cfg, now, active_tokens, issued, tokenResp, streamVars, reduceVars,
                       agentVars, middlewareVars>>

\* invoke_langgraph_agent returns its envelope to execute_tool
AgentReturns(result) ==
    /\ req.pc = "upstream"
    /\ req' = [req EXCEPT !.pc = "done", !.resp = ToolResponse(req.body, result)]
    /\ UNCHANGED <<cfg, now, active_tokens, issued, tokenResp, streamVars, reduceVars,
                   agentVars, middlewareVars>>

\* the response leaves; the next request may arrive
SendResponse ==
    /\ req.pc = "done"
    /\ req' = IdleReq
    /\ UNCHANGED <<cfg, now, active_tokens, issued, tokenResp, streamVars, reduceVars,
                   agentVars, middlewareVars>>

Next ==
    \/ Tick
    \/ \E body \in TokenBodies : OauthToken(body)
    \/ \E credentials \in Credentials, body \in Bodies : McpRequest(credentials, body)
    \/ \E outcome \in OktaOutcomes : OktaResponds(outcome)
    \/ McpHandle
    \/ \E result \in AgentEnvelopes : AgentReturns(result)
    \/ SendResponse

Spec == Init /\ [][Next]_vars

(***************************************************************************)
(* Properties of the server.                                               *)
(***************************************************************************)
\* the step in which a POST /mcp request arrives and verify_token runs
Arrives == req.pc = "idle" /\ req'.pc # "idle"

\* the tokens POST /oauth/token has returned so far
IssuedTokens == { Token(n) : n \in 1..issued }

\* C2: with auth enabled, a token returned by a successful POST /oauth/token
\* is in the table under the requesting client; every request presenting it
\* before its TTL has elapsed is authenticated as that client and leaves the
\* entry in place; the first request presenting it once the TTL has elapsed
\* is answered as expired and removes the entry; and an issued token that is
\* absent from the table stays absent, so a later presentation cannot find it.
C2_IssuedTokenLifetime ==
    [][ /\ (tokenResp'.status = 200 /\ issued' # issued) =>
              LET token == Val(tokenResp'.access_token)
              IN  /\ token \notin DOMAIN active_tokens
                  /\ token \in DOMAIN active_tokens'
                  /\ active_tokens'[token].client_id = OAUTH_CLIENT_ID
                  /\ active_tokens'[token].created_at = now
        /\ (Arrives /\ cfg.OAUTH_ENABLED /\ Has(req'.cred)
                /\ Val(req'.cred) \in DOMAIN active_tokens) =>
              LET token == Val(req'.cred)
                  entry == active_tokens[token]
              IN  IF now < entry.created_at + cfg.OAUTH_TOKEN_EXPIRY
                  THEN /\ req'.pc = "authed"
                       /\ req'.failure = "none"
                       /\ req'.auth.client_id = Some(OAUTH_CLIENT_ID)
                       /\ active_tokens' = active_tokens
                  ELSE /\ req'.pc = "done"
                       /\ req'.failure = "expired"
                       /\ req'.resp = ExpiredTokenResponse
                       /\ token \notin DOMAIN active_tokens'
                       /\ active_tokens' = Del(active_tokens, token)
        /\ \A token \in IssuedTokens :
              token \notin DOMAIN active_tokens => token \notin DOMAIN active_tokens'
      ]_vars

\* a token with a positive TTL was presented after the TTL elapsed: the
\* request is answered as expired and the table no longer holds the token
C2_Witness ==
    /\ cfg.OAUTH_ENABLED
    /\ cfg.OAUTH_TOKEN_EXPIRY > 0
    /\ req.pc = "done"
    /\ req.failure = "expired"
    /\ Has(req.cred)
    /\ Val(req.cred) \in IssuedTokens
    /\ Val(req.cred) \notin DOMAIN active_tokens

\* C3: verify_token consults the issued-token table first, the API-key set
\* only for a token the table does not hold, and the introspection endpoint
\* only for a token neither holds; a hit stops the chain.  An introspection
\* answer other than 200 with active=true (non-200, active=false, network
\* error) and a missing introspection URL both end in the invalid-token 401.
C3_CheckOrder ==
    [][ /\ (Arrives /\ cfg.OAUTH_ENABLED /\ Has(req'.cred)) =>
              LET token == Val(req'.cred)
                  inTable == token \in DOMAIN active_tokens
                  inKeys == token \in cfg.API_KEYS
              IN  /\ inTable =>
                        /\ req'.pc \in {"authed", "done"}
                        /\ req'.auth.type = Absent
                        /\ req'.failure \in {"none", "expired"}
                  /\ (~inTable /\ inKeys) =>
                        /\ req'.pc = "authed"
                        /\ req'.auth.type = Some("api_key")
                  /\ (~inTable /\ ~inKeys) =>
                        IF cfg.OKTA_INTROSPECT_URL
                        THEN req'.pc = "introspecting"
                        ELSE /\ req'.pc = "done"
                             /\ req'.failure = "invalid"
                             /\ req'.resp = InvalidTokenResponse
                  /\ req'.pc = "introspecting" => (~inTable /\ ~inKeys)
                  /\ req'.auth.type = Some("api_key") => ~inTable
        /\ (req.pc = "introspecting" /\ req'.pc # "introspecting") =>
              IF req'.okta.status = 200 /\ req'.okta.active
              THEN /\ req'.pc = "authed"
                   /\ req'.auth.type = Some("okta_token")
                   /\ req'.failure = "none"
              ELSE /\ req'.pc = "done"
                   /\ req'.failure = "invalid"
                   /\ req'.resp.status = 401
                   /\ req'.auth = NoAuth
        /\ req'.okta # NoOutcome => req.pc = "introspecting" \/ req.okta = req'.okta
      ]_vars

\* with a non-empty table and API keys configured, a token neither holds
\* went to introspection, which answered active=false: the request is
\* answered with the invalid-token 401
C3_Witness ==
    /\ cfg.OAUTH_ENABLED
    /\ cfg.API_KEYS # {}
    /\ active_tokens # <<>>
    /\ req.pc = "done"
    /\ req.okta = Outcome(200, FALSE, NoInfo)
    /\ req.failure = "invalid"

\* every table POST /oauth/token can have built under this configuration
Tables ==
    UNION { [ts -> { TokenEntry(OAUTH_CLIENT_ID, t) : t \in 0..MaxTime }]
            : ts \in SUBSET { Token(n) : n \in 1..MaxTokens } }

\* C4: with auth enabled, a configured API key is accepted with the API-key
\* result and no subject, and verify_token gives this same outcome, leaving
\* the table as it is, against every content of the issued-token table; a
\* request that presented an API key carries exactly that result.
C4_ApiKeyIndependentOfTable ==
    cfg.OAUTH_ENABLED =>
        /\ \A k \in cfg.API_KEYS : \A tokens \in Tables \cup {active_tokens} :
              LET v == VerifyToken(Some(k), tokens, now)
              IN  /\ v.kind = "return"
                  /\ v.auth = [py |-> "dict", type |-> Some("api_key"),
                               client_id |-> Absent, token_info |-> Absent]
                  /\ v.failure = "none"
                  /\ v.tokens = tokens
        /\ (req.pc # "idle" /\ Has(req.cred) /\ Val(req.cred) \in cfg.API_KEYS) =>
              /\ req.pc \in {"authed", "upstream", "done"}
              /\ req.failure = "none"
              /\ req.auth.type = Some("api_key")
              /\ req.auth.client_id = Absent
              /\ req.auth.token_info = Absent

\* a request presenting the API key was admitted while the table held an
\* issued token
C4_Witness ==
    /\ cfg.OAUTH_ENABLED
    /\ active_tokens # <<>>
    /\ req.pc = "done"
    /\ req.cred = Some(ApiKey)
    /\ req.auth.type = Some("api_key")
    /\ req.resp.status = 200

\* C5: with authentication disabled, no request to POST /mcp is refused for
\* its credential, and a tools/call of echo is answered with HTTP 200 and a
\* result carrying the echoed text with isError false.
C5_AuthDisabledEcho ==
    (~cfg.OAUTH_ENABLED /\ req.pc = "done") =>
        /\ req.failure = "none"
        /\ req.resp.status # 401
        /\ req.body = B_ECHO =>
              req.resp = JsonRpc(200, B_ECHO.id, 0, SuccessEnvelope(B_ECHO.text))

\* C6: with auth enabled, a request without a credential, with an expired
\* issued token or with an unrecognised token is answered with HTTP 401, a
\* WWW-Authenticate header, and a detail text ending in the re-authentication
\* URL that the X-Reauth-URL header carries; an authentication failure has
\* no other answer.
C6_AuthFailuresAre401 ==
    cfg.OAUTH_ENABLED =>
        /\ (req.pc # "idle" /\ ~Has(req.cred)) => req.failure = "missing"
        /\ req.failure # "none" =>
              /\ req.failure \in {"missing", "expired", "invalid"}
              /\ req.pc = "done"
              /\ req.resp.status = 401
              /\ Has(req.resp.headers.WWW_Authenticate)
              /\ Has(req.resp.headers.X_Reauth_URL)
              /\ Len(req.resp.detail) = 2
              /\ req.resp.detail[2] = Val(req.resp.headers.X_Reauth_URL)
              /\ req.resp.detail[2] = ReauthUrl
              /\ ReauthUrl[1] = OAUTH_AUTHORIZE_URL
        /\ (req.pc = "done" /\ req.failure = "none") => req.resp.status # 401

\* an unrecognised token with no introspection URL configured was refused
C6_Witness ==
    /\ cfg.OAUTH_ENABLED
    /\ ~cfg.OKTA_INTROSPECT_URL
    /\ req.pc = "done"
    /\ req.cred = Some(Foreign)
    /\ req.failure = "invalid"
    /\ req.resp.status = 401

(***************************************************************************)
(* The envelope of a successful invocation.                                *)
(***************************************************************************)
\* C11: a successful invocation returns the reduced text with isError false,
\* together with the run id of the stream's metadata event and the thread id
\* the upstream call used.
C11_EnvelopeCarriesRunAndThread ==
    (pc = "done" /\ ~Has(exc)) =>
        /\ ~envelope.isError
        /\ envelope.text = Reduce(final_messages)
        /\ "run_id" \in DOMAIN envelope
        /\ "thread_id" \in DOMAIN envelope
        /\ envelope.run_id = run_id

(***************************************************************************)
(* The user id sent upstream.                                              *)
(***************************************************************************)
\* the first claim that is a non-empty string, if there is one
FirstNonEmpty(claims) ==
    IF \E i \in 1..Len(claims) : NonEmpty(claims[i])
    THEN claims[CHOOSE i \in 1..Len(claims) :
                    /\ NonEmpty(claims[i])
                    /\ \A j \in 1..(i - 1) : ~NonEmpty(claims[j])]
    ELSE Absent

\* the subject of the request's authentication: the issuing client of an
\* issued token, the first non-empty of sub, uid, username, email and
\* client_id of an introspected token, none for an API key
Subject(auth) ==
    IF Has(auth.client_id) THEN auth.client_id
    ELSE IF Has(auth.token_info)
    THEN LET info == Val(auth.token_info)
         IN  FirstNonEmpty(<<info.sub, info.uid, info.username, info.email,
                             info.client_id>>)
    ELSE Absent

\* C13: the userId of the upstream payload is the subject of the request's
\* authentication, and the payload has no userId when there is no subject.
C13_UserIdIsSubject ==
    req.pc = "upstream" => req.payload.userId = Subject(req.auth)

(***************************************************************************)
(* The REST variant, src/src/agent_mcp/openapi_oauth_server.py: POST       *)
(* /oauth/token, verify_token and POST /invoke.  It has no issued-token    *)
(* table; SpecRest leaves active_tokens empty and the clock at rest.       *)
(***************************************************************************)
OKTA_CLIENT_ID == "okta-client"
OKTA_CLIENT_SECRET == "okta-secret"

RestConfigs ==
    [ OAUTH_ENABLED : BOOLEAN, OAUTH_PROVIDER : {"okta", "google"},
      API_KEYS : { {}, {ApiKey} } ]

\* what verify_token returns: the method, and the token info of an
\* introspected token
RestAuth(method, token_info) == [method |-> method, token_info |-> token_info]
RestNoAuth == RestAuth("", Absent)

\* a POST /invoke request: the X-API-Key header, the bearer value of the
\* Authorization header, and the optional fields of InvokeRequest
RestRequest(api_key, bearer, thread_id, conversationId) ==
    [api_key |-> api_key, bearer |-> bearer, thread_id |-> thread_id,
     conversationId |-> conversationId]
RestRequests ==
    { RestRequest(k, b, ids[1], ids[2]) :
        k \in {Absent, Some(ApiKey), Some(Foreign)},
        b \in {Absent, Some(Foreign)} \cup { Some(Token(n)) : n \in 1..MaxTokens },
        ids \in { <<Absent, Absent>>, <<Some(""), Some("")>>,
                  <<Some("thread-1"), Some("conv-1")>> } }
NoRestRequest == RestRequest(Absent, Absent, Absent, Absent)

RestUnauthorized(detail) ==
    HTTPException(401, <<detail>>, [WWW_Authenticate |-> Some("Bearer")])

\* verify_token, lines 447-580, for a path that is not public and a request
\* without a session user: up to its return, its raise, or the await of the
\* introspection call
RestVerifyToken(request) ==
    LET verdict(kind, auth, response) ==
            [kind |-> kind, auth |-> auth, response |-> response]
    IN  IF Has(request.api_key) /\ Val(request.api_key) \in cfg.API_KEYS
        THEN verdict("return", RestAuth("api_key", Absent), NoResponse)
        ELSE IF Has(request.bearer) /\ cfg.OAUTH_ENABLED /\ cfg.OAUTH_PROVIDER = "okta"
        THEN verdict("await", RestNoAuth, NoResponse)
        ELSE IF ~cfg.OAUTH_ENABLED
        THEN verdict("return", RestAuth("none", Absent), NoResponse)
        ELSE verdict("raise", RestNoAuth, RestUnauthorized("Authentication required"))

\* lines 1205-1215: the payload POST /invoke posts to /runs/stream
RestInvokePayload(request, user_id) ==
    Payload("supervisor", T_HELLO,
            IF NonEmpty(user_id) THEN user_id ELSE Absent,
            IF NonEmpty(request.conversationId) THEN request.conversationId ELSE Absent,
            IF NonEmpty(request.thread_id) THEN request.thread_id ELSE Absent)

\* lines 1325-1333, and the except blocks of lines 1334-1351
RestInvokeResponse(request, outcome) ==
    IF outcome = "success"
    THEN [status |-> 200,
          thread_id |-> IF NonEmpty(request.thread_id) THEN Val(request.thread_id)
                                                       ELSE "auto-generated"]
    ELSE [status |-> 500, detail |-> outcome]

RestReq(p, request, auth, okta, resp, payload) ==
    [pc |-> p, request |-> request, auth |-> auth, okta |-> okta, resp |-> resp,
     payload |-> payload]
RestIdle == RestReq("idle", NoRestRequest, RestNoAuth, NoOutcome, NoResponse, NoPayload)

InitRest ==
    /\ AgentIdle
    /\ MiddlewareIdle
    /\ StreamIdle
    /\ ReduceIdle
    /\ cfg \in RestConfigs
    /\ now = 0
    /\ active_tokens = <<>>
    /\ issued = 0
    /\ req = RestIdle
    /\ tokenResp = TokenResponse(0, "", Absent)

\* POST /oauth/token, lines 736-772, with these form fields
RestOauthToken(grant_type, client_id, client_secret) ==
    /\ IF grant_type # "client_credentials"
       THEN /\ tokenResp' = TokenResponse(400, "unsupported_grant_type", Absent)
            /\ UNCHANGED issued
       ELSE IF client_id # OKTA_CLIENT_ID \/ client_secret # OKTA_CLIENT_SECRET
       THEN /\ tokenResp' = TokenResponse(401, "invalid_client", Absent)
            /\ UNCHANGED issued
       ELSE /\ issued < MaxTokens
            /\ issued' = issued + 1
            /\ tokenResp' = TokenResponse(200, "", Some(Token(issued + 1)))
    /\ UNCHANGED <<cfg, now, active_tokens, req, streamVars, reduceVars, agentVars, middlewareVars>>

\* POST /invoke arrives and verify_token runs
RestInvoke(request) ==
    LET v == RestVerifyToken(request)
    IN  /\ req.pc = "idle"
        /\ req' = RestReq(CASE v.kind = "return" -> "authed"
                            [] v.kind = "raise" -> "done"
                            [] v.kind = "await" -> "introspecting",
                          request, v.auth, NoOutcome, v.response, NoPayload)
        /\ UNCHANGED <<cfg, now, active_tokens, issued, tokenResp, streamVars, reduceVars,
                       agentVars, middlewareVars>>

\* lines 500-549: the introspection call comes back; every failure, the
\* HTTPException of the try block included, ends in the except block's 401
RestOktaResponds(outcome) ==
    /\ req.pc = "introspecting"
    /\ req' = IF outcome.status = 200 /\ outcome.active
              THEN [req EXCEPT !.pc = "authed", !.okta = outcome,
                               !.auth = RestAuth("oauth", Some(outcome.info))]
              ELSE [req EXCEPT !.pc = "done", !.okta = outcome,
                               !.resp = RestUnauthorized("Invalid or expired token")]
    /\ UNCHANGED <<cfg, now, active_tokens, issued, tokenResp, streamVars, reduceVars,
                   agentVars, middlewareVars>>

\* invoke_agent, lines 1163-1260: the user id, the payload, the upstream call
RestInvokeAgent ==
    /\ req.pc = "authed"
    /\ req' = [req EXCEPT !.pc = "upstream",
                          !.payload = RestInvokePayload(req.request, UserId(req.auth))]
    /\ UNCHANGED <<cfg, now, active_tokens, issued, tokenResp, streamVars, reduceVars,
                   agentVars, middlewareVars>>

\* the upstream stream ends, or the call fails
RestAgentReturns(outcome) ==
    /\ req.pc = "upstream"
    /\ req' = [req EXCEPT !.pc = "done", !.resp = RestInvokeResponse(req.request, outcome)]
    /\ UNCHANGED <<cfg, now, active_tokens, issued, tokenResp, streamVars, reduceVars,
                   agentVars, middlewareVars>>

RestSendResponse ==
    /\ req.pc = "done"
    /\ req' = RestIdle
    /\ UNCHANGED <<cfg, now, active_tokens, issued, tokenResp, streamVars, reduceVars,
                   agentVars, middlewareVars>>

NextRest ==
    \/ \E grant_type \in {"client_credentials", "password"},
          client_id \in {OKTA_CLIENT_ID, ""}, client_secret \in {OKTA_CLIENT_SECRET, "guess"} :
          RestOauthToken(grant_type, client_id, client_secret)
    \/ \E request \in RestRequests : RestInvoke(request)
    \/ \E outcome \in OktaOutcomes : RestOktaResponds(outcome)
    \/ RestInvokeAgent
    \/ \E outcome \in {"success", "HTTP error invoking agent", "Error invoking agent"} :
          RestAgentReturns(outcome)
    \/ RestSendResponse

SpecRest == InitRest /\ [][NextRest]_vars

\* C12: every payload sent upstream carries a non-empty thread id under
\* config.configurable and a non-empty conversation id: the caller's when
\* the caller supplied one, a generated one otherwise.
C12_PayloadHasThread ==
    req.pc = "upstream" =>
        /\ NonEmpty(req.payload.thread_id)
        /\ NonEmpty(req.payload.conversationId)
        /\ NonEmpty(req.request.thread_id) => req.payload.thread_id = req.request.thread_id
        /\ NonEmpty(req.request.conversationId) =>
              req.payload.conversationId = req.request.conversationId

\* C20: with auth enabled, a POST /invoke whose only credential is a bearer
\* token that this server's POST /oauth/token returned is admitted.
C20_RestAcceptsIssuedToken ==
    ( /\ cfg.OAUTH_ENABLED
      /\ req.pc = "done"
      /\ ~Has(req.request.api_key)
      /\ Has(req.request.bearer)
      /\ Val(req.request.bearer) \in IssuedTokens ) => req.resp.status # 401

(***************************************************************************)
(* Properties of POST /mcp's answers, of POST /oauth/token and of the      *)
(* issued-token table, under Spec.                                         *)
(***************************************************************************)
\* a request that verify_token admitted and mcp_endpoint has answered
Answered == req.pc = "done" /\ req.failure = "none"

\* the answer is a JSON-RPC response
IsJsonRpc(resp) == "error" \in DOMAIN resp /\ "id" \in DOMAIN resp

JsonRpcError(resp, code, error) ==
    IsJsonRpc(resp) /\ resp.status = code /\ resp.error = error

JsonRpcResult(resp, id) ==
    IsJsonRpc(resp) /\ resp.status = 200 /\ resp.error = 0 /\ resp.id = id

\* C14: a body that is not JSON is answered with -32700, a JSON body that is
\* not an object with -32600, an unknown method with -32601, a tools/call
\* without a tool name with -32602, a tool that fails with -32603; and
\* initialize, tools/list and a tools/call whose tool returned are answered
\* with a result under the request's id.
C14_ErrorCodes ==
    Answered =>
        /\ req.body.json \in {"invalid", "undecodable"} =>
              JsonRpcError(req.resp, 400, -32700)
        /\ req.body.json = "array" => JsonRpcError(req.resp, 400, -32600)
        /\ req.body = B_UNKNOWN => JsonRpcError(req.resp, 400, -32601)
        /\ req.body = B_NONAME => JsonRpcError(req.resp, 400, -32602)
        /\ req.body = B_NOTOOL =>
              /\ JsonRpcError(req.resp, 500, -32603)
              /\ req.resp.id = req.body.id
        /\ req.body \in {B_INITIALIZE, B_LIST} => JsonRpcResult(req.resp, req.body.id)
        /\ (req.body = B_ECHO /\ req.auth.py = "dict") =>
              /\ JsonRpcResult(req.resp, req.body.id)
              /\ req.resp.result = [isError |-> FALSE, text |-> req.body.text]
        /\ (req.body \in {B_INVOKE, B_INVOKE_IDS, B_INVOKE_EMPTY} /\ req.auth.py = "dict") =>
              /\ JsonRpcResult(req.resp, req.body.id)
              /\ req.resp.result \in AgentEnvelopes
        /\ (req.body \in {B_ECHO, B_INVOKE, B_INVOKE_IDS, B_INVOKE_EMPTY}
                /\ req.auth.py # "dict") =>
              /\ JsonRpcError(req.resp, 500, -32603)
              /\ req.resp.id = req.body.id

\* C15: whatever the bytes of the body and the types of its entries, an
\* admitted request is answered with a JSON-RPC response (a notification
\* with 204), and an exception raised while handling it becomes -32603 with
\* HTTP 500.
C15_NeverEscapes ==
    Answered =>
        \/ req.resp.status = 204 /\ IsNotification(req.body.method)
        \/ /\ IsJsonRpc(req.resp)
           /\ req.resp.status = 500 => req.resp.error = -32603
           /\ (req.body.json = "object" /\ req.body.illtyped # "none") =>
                  JsonRpcError(req.resp, 500, -32603)

\* the request is one POST /oauth/token is to honour
ValidTokenRequest(body) ==
    /\ cfg.OAUTH_ENABLED
    /\ body.json = "object"
    /\ body.grant_type = "client_credentials"
    /\ body.client_id # "" /\ body.client_id = OAUTH_CLIENT_ID
    /\ body.client_secret # "" /\ body.client_secret = OAUTH_CLIENT_SECRET

\* C16: POST /oauth/token stores and returns a new token exactly for a
\* client_credentials request with the configured, non-empty client id and
\* secret while auth is enabled, with an entry expiring the configured TTL
\* after now; every other request is answered 400, or 401 invalid_client,
\* without a token and without a change of the table.
C16_TokenIssuance ==
    [][ \A body \in TokenBodies : OauthToken(body) =>
          IF ValidTokenRequest(body)
          THEN /\ tokenResp'.status = 200
               /\ Has(tokenResp'.access_token)
               /\ Val(tokenResp'.access_token) \notin DOMAIN active_tokens
               /\ DOMAIN active_tokens' =
                      DOMAIN active_tokens \cup {Val(tokenResp'.access_token)}
               /\ active_tokens'[Val(tokenResp'.access_token)].expires_at =
                      now + cfg.OAUTH_TOKEN_EXPIRY
          ELSE /\ tokenResp'.status \in {400, 401}
               /\ tokenResp'.status = 401 => tokenResp'.error = "invalid_client"
               /\ ~Has(tokenResp'.access_token)
               /\ active_tokens' = active_tokens
      ]_vars

\* C17: the table changes only by an issuance, which adds the new token and
\* nothing else, and by the presentation of an expired issued token, which
\* removes that token and nothing else; every other step, the admission of
\* a valid token, of an API key, by introspection, the refusal of a missing
\* or unknown credential and a rejected issuance included, leaves it as is.
C17_TableFrame ==
    [][ LET issuance ==
                /\ issued' = issued + 1
                /\ tokenResp'.status = 200
                /\ Token(issued') \notin DOMAIN active_tokens
                /\ DOMAIN active_tokens' = DOMAIN active_tokens \cup {Token(issued')}
                /\ \A t \in DOMAIN active_tokens : active_tokens'[t] = active_tokens[t]
            expiry ==
                /\ Arrives
                /\ req'.failure = "expired"
                /\ Val(req'.cred) \in DOMAIN active_tokens
                /\ active_tokens[Val(req'.cred)].expires_at <= now
                /\ DOMAIN active_tokens' = DOMAIN active_tokens \ {Val(req'.cred)}
                /\ \A t \in DOMAIN active_tokens' : active_tokens'[t] = active_tokens[t]
        IN  /\ active_tokens' # active_tokens => (issuance \/ expiry)
            /\ (issued' # issued) => issuance
            /\ (Arrives /\ req'.failure = "expired") => expiry
            /\ (tokenResp' # tokenResp /\ tokenResp'.status # 200) =>
                  active_tokens' = active_tokens
            /\ (Arrives /\ req'.failure # "expired") => active_tokens' = active_tokens
            /\ (req.pc # "idle" /\ issued' = issued) => active_tokens' = active_tokens
      ]_vars

\* a second token was issued next to one already in the table
C17_Witness ==
    /\ issued = 2
    /\ DOMAIN active_tokens = {Token(1), Token(2)}
    /\ tokenResp.access_token = Some(Token(2))

(***************************************************************************)
(* Concurrent requests in verify_token, lines 180-285.  The event loop     *)
(* switches between requests only where a coroutine awaits; SpecConcurrent *)
(* runs each request from one suspension point to the next.  Here req maps *)
(* each request to its position and outcome.                               *)
(***************************************************************************)
MaxReqs == 2
Requests == 1..MaxReqs

\* SuspensionPoints with an await between the expiry test and the del
SuspensionPointsAtDelete == {"introspect", "delete"}

\* the program points of verify_token at which it awaits: only the
\* introspection call of line 247
SuspensionPoints == {"introspect"}

ConcReq(p, cred, result) == [pc |-> p, cred |-> cred, result |-> result]

\* verify_token from program point p on, until it awaits or ends; resumed
\* says that the request is being resumed at p, outcome is what the awaited
\* introspection call answered
RECURSIVE Advance(_, _, _, _, _)
Advance(p, token, tokens, resumed, outcome) ==
    LET end(result, table) == [pc |-> "done", result |-> result, tokens |-> table]
    IN  IF p \in SuspensionPoints /\ ~resumed
        THEN [pc |-> p, result |-> "none", tokens |-> tokens]
        ELSE CASE p = "lookup" ->
                    IF token \in DOMAIN tokens
                    THEN IF Unexpired(tokens[token], now)
                         THEN end("valid", tokens)
                         ELSE Advance("delete", token, tokens, FALSE, outcome)
                    ELSE Advance("api_keys", token, tokens, FALSE, outcome)
               [] p = "delete" ->
                    IF token \in DOMAIN tokens
                    THEN end("expired", Del(tokens, token))
                    ELSE end("KeyError", tokens)
               [] p = "api_keys" ->
                    IF cfg.API_KEYS # {} /\ token \in cfg.API_KEYS
                    THEN end("api_key", tokens)
                    ELSE IF cfg.OKTA_INTROSPECT_URL
                    THEN Advance("introspect", token, tokens, FALSE, outcome)
                    ELSE end("invalid", tokens)
               [] p = "introspect" ->
                    IF Has(ValidateOktaToken(outcome))
                    THEN end("okta_token", tokens)
                    ELSE end("invalid", tokens)

InitConcurrent ==
    /\ AgentIdle
    /\ MiddlewareIdle
    /\ StreamIdle
    /\ ReduceIdle
    /\ cfg \in { c \in Configs : c.OAUTH_ENABLED }
    /\ now = 0
    /\ active_tokens = <<>>
    /\ issued = 0
    /\ req = [i \in Requests |-> ConcReq("idle", Absent, "none")]
    /\ tokenResp = TokenResponse(0, "", Absent)

\* request i arrives with a bearer token and verify_token runs to its first
\* suspension point
Present(i, token) ==
    LET a == Advance("lookup", token, active_tokens, TRUE, NoOutcome)
    IN  /\ req[i].pc = "idle"
        /\ req' = [req EXCEPT ![i] = ConcReq(a.pc, Some(token), a.result)]
        /\ active_tokens' = a.tokens
        /\ UNCHANGED <<cfg, now, issued, tokenResp, streamVars, reduceVars, agentVars, middlewareVars>>

\* request i is resumed where it was suspended; outcome is the answer of
\* the introspection call it awaited
Resume(i, outcome) ==
    LET a == Advance(req[i].pc, Val(req[i].cred), active_tokens, TRUE, outcome)
    IN  /\ req[i].pc \notin {"idle", "done"}
        /\ req' = [req EXCEPT ![i] = ConcReq(a.pc, req[i].cred, a.result)]
        /\ active_tokens' = a.tokens
        /\ UNCHANGED <<cfg, now, issued, tokenResp, streamVars, reduceVars, agentVars, middlewareVars>>

NextConcurrent ==
    \/ Tick
    \/ OauthToken(TokenBody("object", "client_credentials", OAUTH_CLIENT_ID,
                            OAUTH_CLIENT_SECRET))
    \/ \E i \in Requests, n \in 1..MaxTokens : Present(i, Token(n))
    \/ \E i \in Requests, outcome \in OktaOutcomes : Resume(i, outcome)

SpecConcurrent == InitConcurrent /\ [][NextConcurrent]_vars

\* the requests that presented token and were told it had expired
ReportedExpired(token) ==
    { i \in Requests : req[i].cred = Some(token) /\ req[i].result = "expired" }

\* C18: however many requests present the same expired token, and however
\* they interleave, none fails on deleting an entry that is gone, at most
\* one of them is told the token expired, and that one removed the entry:
\* an issued token is missing from the table exactly when one request has
\* reported it expired.
C18_AtomicExpiry ==
    /\ \A i \in Requests : req[i].result # "KeyError"
    /\ \A token \in IssuedTokens :
          /\ Cardinality(ReportedExpired(token)) <= 1
          /\ token \notin DOMAIN active_tokens <=>
                Cardinality(ReportedExpired(token)) = 1

\* two requests presented the same expired token: one removed it and
\* reported it expired, the other found it unknown
C18_Witness ==
    /\ req[1].pc = "done" /\ req[2].pc = "done"
    /\ req[1].cred = req[2].cred
    /\ {req[1].result, req[2].result} = {"expired", "invalid"}
    /\ Val(req[1].cred) \in IssuedTokens
    /\ Val(req[1].cred) \notin DOMAIN active_tokens

(***************************************************************************)
(* Simultaneous invocations of invoke_langgraph_agent, lines 474-602.  The *)
(* parser's variables are locals of the call; SpecPair keeps one frame of  *)
(* locals per invocation and lets the lines of the upstream streams arrive *)
(* in any order.  Here each stream variable maps an invocation to its      *)
(* value.                                                                  *)
(***************************************************************************)
MaxInvocations == 2
MaxPairLines == 3
Invocations == 1..MaxInvocations

PairLines ==
    { EventLine(n) : n \in EventNames }
        \cup { DataLine(t) : t \in {"D_OLD", "D_NEW", "D_RUN", "D_NUM"} }
        \cup { BlankLine }

\* FrameOf with the parser's variables kept at module level
FrameShared(i) == 1

\* the frame holding the locals of invocation i: its own
FrameOf(i) == i

Locals(rid, fm, ev, data) ==
    [run_id |-> rid, final_messages |-> fm, current_event |-> ev, current_data |-> data]

\* one iteration of the loop of lines 481-531 on the locals st; raised when
\* the flush raised
ParseLine(st, l) ==
    LET f == Flush(st.current_event, st.current_data, st.run_id, st.final_messages)
        next(ev) == [raised |-> FALSE,
                     locals |-> Locals(f.run_id, f.final_messages, ev, <<>>)]
    IN  CASE l.k = "event" ->
               IF f.raised THEN [raised |-> TRUE, locals |-> st] ELSE next(Some(l.v))
          [] l.k = "data" ->
               [raised |-> FALSE,
                locals |-> [st EXCEPT !.current_data = Append(st.current_data, l.v)]]
          [] l.k = "blank" ->
               IF f.raised THEN [raised |-> TRUE, locals |-> st] ELSE next(Absent)
          [] OTHER -> [raised |-> FALSE, locals |-> st]

\* the locals of frame k
LocalsAt(k) == Locals(run_id[k], final_messages[k], current_event[k], current_data[k])

InitPair ==
    /\ AgentIdle
    /\ MiddlewareIdle
    /\ ServerIdle
    /\ ReduceIdle
    /\ pc = [i \in Invocations |-> "parse"]
    /\ status = 200
    /\ lines = [i \in Invocations |-> <<>>]
    /\ run_id = [i \in Invocations |-> Absent]
    /\ final_messages = [i \in Invocations |-> <<>>]
    /\ current_event = [i \in Invocations |-> Absent]
    /\ current_data = [i \in Invocations |-> <<>>]
    /\ envelope = [i \in Invocations |-> NoEnvelope]
    /\ error_chunks = 0
    /\ error_text = 0
    /\ exc = [i \in Invocations |-> Absent]

\* the stream of invocation i yields the line l
PairRecvLine(i, l) ==
    LET k == FrameOf(i)
        r == ParseLine(LocalsAt(k), l)
    IN  /\ pc[i] = "parse"
        /\ Len(lines[i]) < MaxPairLines
        /\ lines' = [lines EXCEPT ![i] = Append(@, l)]
        /\ run_id' = [run_id EXCEPT ![k] = r.locals.run_id]
        /\ final_messages' = [final_messages EXCEPT ![k] = r.locals.final_messages]
        /\ current_event' = [current_event EXCEPT ![k] = r.locals.current_event]
        /\ current_data' = [current_data EXCEPT ![k] = r.locals.current_data]
        /\ IF r.raised
           THEN /\ pc' = [pc EXCEPT ![i] = "done"]
                /\ exc' = [exc EXCEPT ![i] = Some("TypeError")]
                /\ envelope' = [envelope EXCEPT ![i] = Except("TypeError").envelope]
           ELSE UNCHANGED <<pc, exc, envelope>>
        /\ UNCHANGED <<status, error_chunks, error_text, serverVars, reduceVars, agentVars, middlewareVars>>

\* the stream of invocation i ends: lines 533-602
PairStreamEnds(i) ==
    /\ pc[i] = "parse"
    /\ pc' = [pc EXCEPT ![i] = "done"]
    /\ envelope' = [envelope EXCEPT ![i] =
                       SuccessEnvelope(Reduce(final_messages[FrameOf(i)]))]
    /\ UNCHANGED <<status, lines, parserVars, error_chunks, error_text, exc,
                   serverVars, reduceVars, agentVars, middlewareVars>>

NextPair ==
    \/ \E i \in Invocations, l \in PairLines : PairRecvLine(i, l)
    \/ \E i \in Invocations : PairStreamEnds(i)

SpecPair == InitPair /\ [][NextPair]_vars

\* line j ends a metadata event whose data decodes to an object with a run id
WellFormedMetadata(L, j) ==
    LET i == PrevEnd(L, j)
    IN  /\ EndsFrame(L, j)
        /\ i > 0
        /\ L[i] = EventLine("metadata")
        /\ Len(DataBetween(L, i, j)) > 0
        /\ Loads(DataBetween(L, i, j)).t = "object"
        /\ Has(Loads(DataBetween(L, i, j)).run_id)

\* the run id of the last well-formed metadata event, None when there is none
LastRunId(L) ==
    LET ends == { j \in 1..Len(L) : WellFormedMetadata(L, j) }
        last == CHOOSE j \in ends : \A h \in ends : h <= j
    IN  IF ends = {} THEN Absent
        ELSE Loads(DataBetween(L, PrevEnd(L, last), last)).run_id

\* C19: under every interleaving of the line arrivals of simultaneous
\* invocations, the run id and the message snapshot of each invocation are
\* those of its own stream's lines, and the text it returns is reduced from
\* its own stream's last snapshot.
C19_InvocationsIsolated ==
    \A i \in Invocations :
        /\ run_id[i] = LastRunId(lines[i])
        /\ final_messages[i] = LastValues(lines[i])
        /\ (pc[i] = "done" /\ ~Has(exc[i])) =>
              envelope[i] = [isError |-> FALSE, text |-> Reduce(LastValues(lines[i]))]

\* two invocations whose lines arrived interleaved ended with different
\* snapshots, each from its own stream
C19_Witness ==
    /\ pc[1] = "done" /\ pc[2] = "done"
    /\ lines[1] = <<EventLine("values"), DataLine("D_OLD"), BlankLine>>
    /\ lines[2] = <<EventLine("values"), DataLine("D_NEW"), BlankLine>>
    /\ envelope[1].text = T_OLD
    /\ envelope[2].text = T_NEW

(***************************************************************************)
(* MCPAgent (src/src/agent_mcp/agent.py) and MCPProtocol                   *)
(* (src/src/agent_mcp/protocol.py).  SpecAgent registers tools and         *)
(* handlers and then calls _handle_call_tool and handle_message.           *)
(***************************************************************************)
ToolNames == {"echo", "other"}

\* a callable: a plain function or a coroutine function, which returns the
\* str `returns` or, when that is absent, raises
Func(kind, returns) == [kind |-> kind, returns |-> returns]
Funcs ==
    { Func("def", Some("Echo: hello")), Func("async def", Some("Echo: hello")),
      Func("async def", Absent) }

\* a dict with one key; names is the value of list_tools' "tools" key
Dict(key, value, names) == [key |-> key, value |-> value, names |-> names]
NoDict == Dict("", "", {})

\* how a call ended: it returned value, or raised error with str(error) message
Ended(kind, value, error, message) ==
    [kind |-> kind, value |-> value, error |-> error, message |-> message]
Returns(value) == Ended("return", value, "", <<>>)
Raises(error, message) == Ended("raise", NoDict, error, message)

\* func(...): what calling the function gives, value when it returns
Called(func, value) ==
    IF Has(func.returns) THEN Returns(value) ELSE Raises("RuntimeError", <<"boom">>)

\* `await func(...)`: the call runs the function; awaiting what a plain
\* function returned raises TypeError, a str or dict being no awaitable
AwaitCall(func, value) ==
    IF Called(func, value).kind = "raise" THEN Called(func, value)
    ELSE IF func.kind = "async def" THEN Returns(value)
    ELSE Raises("TypeError", <<"object can't be used in 'await' expression">>)

\* params of call_tool; arguments says whether they fit the tool's signature
Params(name, arguments) == [name |-> name, arguments |-> arguments]
ParamsSet ==
    { Params(name, arguments) :
        name \in {Absent, Some(""), Some("echo"), Some("other"), Some("nonexistent")},
        arguments \in {"fit", "misfit"} }

\* MCPAgent._handle_call_tool, lines 172-188: the outcome and the tools called
HandleCallTool(params, table) ==
    LET tool_name == params.name
        out(o, called) == [outcome |-> o, ran |-> called]
    IN  IF ~NonEmpty(tool_name)
        THEN out(Raises("ValueError", <<"Tool name is required">>), {})
        ELSE IF Val(tool_name) \notin DOMAIN table
        THEN out(Raises("ValueError", <<"Tool not found: ", Val(tool_name)>>), {})
        ELSE IF params.arguments # "fit"
        THEN out(Raises("ValueError", <<"Tool execution failed: ", "TypeError">>), {})
        ELSE LET tool_func == table[Val(tool_name)]
                 r == AwaitCall(tool_func,
                                Dict("result", IF Has(tool_func.returns)
                                               THEN Val(tool_func.returns) ELSE "", {}))
             IN  IF r.kind = "return"
                 THEN out(r, {Val(tool_name)})
                 ELSE out(Raises("ValueError", <<"Tool execution failed: ", r.error>>),
                          {Val(tool_name)})

\* the dict a tool call is specified to give for the tool function
ToolResult(tool_func) ==
    Dict("result", IF Has(tool_func.returns) THEN Val(tool_func.returns) ELSE "", {})

\* MCPMessage, protocol.py lines 23-30
MCPMessage(type, id, method, params, result, error) ==
    [type |-> type, id |-> id, method |-> method, params |-> params,
     result |-> result, error |-> error]
MessageTypes == {"request", "response", "notification"}
ErrorDict(code, message) == [code |-> code, message |-> message]

\* a message text: json says whether json.loads accepts it, the other fields
\* are the keys of the object it decodes to
Raw(json, type, id, method, params, result, error) ==
    [json |-> json, type |-> type, id |-> id, method |-> method, params |-> params,
     result |-> result, error |-> error]
RawMessages ==
    { Raw("invalid", "", Absent, Absent, Absent, Absent, Absent) }
        \cup { Raw("object", type, id, method, params, Absent, Absent) :
                 type \in {"request", "notification", "bogus"},
                 id \in {Absent, Some(""), Some("1")},
                 method \in {Absent, Some("ping"), Some("list_tools"), Some("call_tool"),
                             Some("test_method"), Some("nope")},
                 params \in {Absent, Some(Params(Some("echo"), "fit")),
                             Some(Params(Some("nonexistent"), "fit"))} }

\* MCPProtocol.parse_message, lines 41-60: ValueError unless the text is a
\* JSON object whose type is a MessageType
ParseMessage(raw) ==
    IF raw.json = "object" /\ raw.type \in MessageTypes
    THEN [raised |-> FALSE,
          message |-> MCPMessage(raw.type, raw.id, raw.method, raw.params,
                                 raw.result, raw.error)]
    ELSE [raised |-> TRUE,
          message |-> MCPMessage("", Absent, Absent, Absent, Absent, Absent)]

\* MCPProtocol.create_response, lines 82-100
CreateResponse(request_id, result, error) ==
    MCPMessage("response", Some(request_id), Absent, Absent, result, error)

\* MCPProtocol.serialize_message, lines 119-129: the JSON object with the
\* fields that are not None
SerializeMessage(message) ==
    Raw("object", message.type, message.id, message.method, message.params,
        message.result, message.error)

\* a handler: a bound method of the agent, or a function given to
\* register_handler
Handler(name, func) == [name |-> name, func |-> func]
DefaultHandlers ==
    [method \in {"ping", "list_tools", "call_tool"} |->
        Handler("_handle_" \o method, Func("async def", Some("")))]
CustomHandlers == { Handler("test_handler", f) : f \in Funcs }
TestResult == Dict("result", "test", {})

\* `await handler(message.params or {})`, lines 141 and 159
AwaitHandler(handler, params, table) ==
    LET p == IF Has(params) THEN Val(params) ELSE Params(Absent, "fit")
        out(o, called) == [outcome |-> o, ran |-> called]
    IN  CASE handler.name = "_handle_ping" -> out(Returns(Dict("pong", "True", {})), {})
          [] handler.name = "_handle_list_tools" ->
               out(Returns(Dict("tools", "", DOMAIN table)), {})
          [] handler.name = "_handle_call_tool" -> HandleCallTool(p, table)
          [] OTHER -> out(AwaitCall(handler.func, TestResult), {handler.name})

\* MCPAgent._handle_request, lines 127-149
HandleRequest(message, handlers, table) ==
    LET out(raised, response, called) ==
            [raised |-> raised, response |-> response, ran |-> called]
        id == Val(message.id)
    IN  IF ~NonEmpty(message.method) \/ ~NonEmpty(message.id)
        THEN out(TRUE, Absent, {})
        ELSE IF Val(message.method) \notin DOMAIN handlers
        THEN out(FALSE,
                 Some(SerializeMessage(CreateResponse(id, Absent,
                     Some(ErrorDict(-32601, <<"Method not found: ", Val(message.method)>>))))),
                 {})
        ELSE LET r == AwaitHandler(handlers[Val(message.method)], message.params, table)
             IN  IF r.outcome.kind = "return"
                 THEN out(FALSE,
                          Some(SerializeMessage(CreateResponse(id, Some(r.outcome.value),
                                                               Absent))),
                          r.ran)
                 ELSE out(FALSE,
                          Some(SerializeMessage(CreateResponse(id, Absent,
                              Some(ErrorDict(-1, r.outcome.message))))),
                          r.ran)

\* MCPAgent.handle_message, lines 90-125: raised says that an exception left
\* the method, response is the Optional[str] it returned
HandleMessage(raw_message, handlers, table) ==
    LET out(response, called) == [raised |-> FALSE, response |-> response, ran |-> called]
        parsed == ParseMessage(raw_message)
        message == parsed.message
    IN  IF parsed.raised
        THEN out(Absent, {})      \* the second parse raises too
        ELSE IF message.type = "request" /\ NonEmpty(message.method)
        THEN LET r == HandleRequest(message, handlers, table)
             IN  IF ~r.raised THEN out(r.response, r.ran)
                 ELSE IF NonEmpty(message.id)
                 THEN out(Some(SerializeMessage(CreateResponse(Val(message.id), Absent,
                              Some(ErrorDict(-1, <<"Request must have method and id">>))))),
                          r.ran)
                 ELSE out(Absent, r.ran)
        ELSE IF message.type = "notification" /\ NonEmpty(message.method)
        THEN IF Val(message.method) \in DOMAIN handlers
             THEN out(Absent,
                      AwaitHandler(handlers[Val(message.method)], message.params, table).ran)
             ELSE out(Absent, {})
        ELSE out(Absent, {})

\* what the last operation was and how it ended
Op(name, params, raw_message, outcome, raised, response) ==
    [op |-> name, params |-> params, raw |-> raw_message, outcome |-> outcome,
     raised |-> raised, response |-> response]

InitAgent ==
    /\ ServerIdle
    /\ StreamIdle
    /\ ReduceIdle
    /\ MiddlewareIdle
    /\ tools = <<>>
    /\ message_handlers = DefaultHandlers
    /\ ran = {}
    /\ returned = Absent

\* register_tool, lines 56-65
RegisterTool(name, tool_func) ==
    /\ tools' = [n \in DOMAIN tools \cup {name} |->
                    IF n = name THEN tool_func ELSE tools[n]]
    /\ ran' = {}
    /\ returned' = Absent
    /\ UNCHANGED <<message_handlers, serverVars, streamVars, reduceVars, middlewareVars>>

\* register_handler, lines 45-54
RegisterHandler(method, handler) ==
    /\ message_handlers' = [m \in DOMAIN message_handlers \cup {method} |->
                               IF m = method THEN handler ELSE message_handlers[m]]
    /\ ran' = {}
    /\ returned' = Absent
    /\ UNCHANGED <<tools, serverVars, streamVars, reduceVars, middlewareVars>>

\* a caller awaits _handle_call_tool(params)
CallTool(params) ==
    LET r == HandleCallTool(params, tools)
    IN  /\ ran' = r.ran
        /\ returned' = Some(Op("_handle_call_tool", Some(params), Absent, r.outcome,
                               r.outcome.kind = "raise", Absent))
        /\ UNCHANGED <<tools, message_handlers, serverVars, streamVars, reduceVars,
                       middlewareVars>>

\* a caller awaits handle_message(raw_message)
Message(raw_message) ==
    LET r == HandleMessage(raw_message, message_handlers, tools)
    IN  /\ ran' = r.ran
        /\ returned' = Some(Op("handle_message", Absent, Some(raw_message),
                               Returns(NoDict), r.raised, r.response))
        /\ UNCHANGED <<tools, message_handlers, serverVars, streamVars, reduceVars,
                       middlewareVars>>

NextAgent ==
    \/ \E name \in ToolNames, tool_func \in Funcs : RegisterTool(name, tool_func)
    \/ \E handler \in CustomHandlers : RegisterHandler("test_method", handler)
    \/ \E params \in ParamsSet : CallTool(params)
    \/ \E raw_message \in RawMessages : Message(raw_message)

SpecAgent == InitAgent /\ [][NextAgent]_vars

\* the last operation was _handle_call_tool
CalledTool == Has(returned) /\ Val(returned).op = "_handle_call_tool"

\* C21: _handle_call_tool with the name of a registered tool, plain or
\* coroutine, and arguments it accepts returns {"result": value} with the
\* value the tool returned; with a missing or unregistered name it raises
\* ValueError and no tool has run.
C21_CallToolReturnsResult ==
    CalledTool =>
        LET params == Val(Val(returned).params)
            outcome == Val(returned).outcome
        IN  /\ ( /\ NonEmpty(params.name)
                 /\ Val(params.name) \in DOMAIN tools
                 /\ params.arguments = "fit"
                 /\ Has(tools[Val(params.name)].returns) )
                    => outcome = Returns(ToolResult(tools[Val(params.name)]))
            /\ (~NonEmpty(params.name) \/ Val(params.name) \notin DOMAIN tools)
                    => outcome.kind = "raise" /\ outcome.error = "ValueError" /\ ran = {}

\* the last operation was handle_message
HandledMessage == Has(returned) /\ Val(returned).op = "handle_message"

\* C22: handle_message never raises; for a request with an id and a
\* registered method whose handler returned a result it returns the
\* serialized response with that id and that result; for a notification and
\* for text that cannot be parsed it returns None.
C22_HandleMessageNeverRaises ==
    HandledMessage =>
        LET raw_message == Val(Val(returned).raw)
            parsed == ParseMessage(raw_message)
            message == parsed.message
            handler == message_handlers[Val(message.method)]
            result == IF handler.name = "test_handler"
                      THEN Called(handler.func, TestResult)
                      ELSE AwaitHandler(handler, message.params, tools).outcome
        IN  /\ ~Val(returned).raised
            /\ ( /\ ~parsed.raised
                 /\ message.type = "request"
                 /\ NonEmpty(message.id)
                 /\ NonEmpty(message.method)
                 /\ Val(message.method) \in DOMAIN message_handlers
                 /\ result.kind = "return" )
                    => Val(returned).response =
                          Some(SerializeMessage(CreateResponse(Val(message.id),
                                                               Some(result.value), Absent)))
            /\ (parsed.raised \/ message.type = "notification")
                    => Val(returned).response = Absent

(***************************************************************************)
(* The middleware stack of the FastMCP server (src/src/agent_mcp/          *)
(* mcp_server.py lines 720-744) with AuthMiddleware (src/src/agent_mcp/    *)
(* oauth.py lines 207-278).  SpecMiddleware sends one request at a time    *)
(* down the stack: AuthMiddleware, then the Starlette application with its *)
(* SessionMiddleware, then the route.                                      *)
(***************************************************************************)
OAuthConfigs ==
    [auth_enabled : BOOLEAN, api_keys : {{}, {"key-1"}}]

\* AuthMiddleware.public_paths, lines 216-223
public_paths ==
    {"/health", "/auth/login", "/auth/callback", "/auth/logout", "/auth/status",
     "/favicon.ico"}
\* the paths requested; the last two are routes that need authentication
Paths == {"/health", "/favicon.ico", "/auth/callback", "/auth/logout", "/auth/other",
          "/sse", "/api/invoke"}
\* path.startswith('/auth/')
StartsWithAuth(path) == path \in {"/auth/login", "/auth/callback", "/auth/logout",
                                  "/auth/status", "/auth/other"}

\* the session dict: its 'user' entry
User(authenticated) == [authenticated |-> authenticated]
Session(user) == [user |-> user]
EmptySession == Session(Absent)

\* request headers; Authorization is the list of the parts of its value,
\* "Bearer " being the scheme prefix
Headers(x_api_key, authorization) ==
    [x_api_key |-> x_api_key, authorization |-> authorization]
HeaderSets ==
    { Headers(k, a) :
        k \in {Absent, Some("key-1"), Some("wrong")},
        a \in {Absent, Some(<<"Bearer ", "key-1">>), Some(<<"Bearer ", "wrong">>)} }

\* value.replace('Bearer ', '') of an Authorization value of at most two parts
ReplaceBearer(parts) ==
    LET kept == SelectSeq(parts, LAMBDA part : part # "Bearer ")
    IN  IF kept = <<>> THEN "" ELSE kept[1]

\* APIKeyAuth.validate_api_key, lines 200-204
ValidateApiKey(config, api_key) ==
    IF config.api_keys = {} THEN FALSE ELSE api_key \in config.api_keys

\* the ASGI scope of a request: where it is in the stack, what it carries,
\* and the "session" entry once SessionMiddleware has put it there
Scope(at, path, headers, carried, session, reached) ==
    [type |-> "http", at |-> at, path |-> path, headers |-> headers,
     carried |-> carried, session |-> session, reached |-> reached]

\* AuthMiddleware.__call__, lines 225-278: TRUE when it calls self.app, FALSE
\* when it answers 401
AuthMiddlewareForwards(config, sc) ==
    LET api_key ==
            IF NonEmpty(sc.headers.x_api_key) THEN Val(sc.headers.x_api_key)
            ELSE IF Has(sc.headers.authorization)
            THEN ReplaceBearer(Val(sc.headers.authorization))
            ELSE ""
    IN  IF ~config.auth_enabled THEN TRUE
        ELSE IF sc.path \in public_paths \/ StartsWithAuth(sc.path) THEN TRUE
        ELSE IF api_key # "" /\ ValidateApiKey(config, api_key) THEN TRUE
        ELSE IF Has(sc.session)
        THEN Has(Val(sc.session).user) /\ Val(Val(sc.session).user).authenticated
        ELSE FALSE

Unauthorized401 == [status_code |-> 401, message |-> "Authentication required"]
AppResponse == [status_code |-> 200, message |-> "ok"]

InitMiddleware ==
    /\ ServerIdle
    /\ StreamIdle
    /\ ReduceIdle
    /\ AgentIdle
    /\ oauth_config \in OAuthConfigs
    /\ cookie = Absent
    /\ scope = [type |-> "idle"]
    /\ sent = Absent

\* a client sends a request with its cookie; the outermost layer that looks
\* at credentials is AuthMiddleware when auth is enabled (lines 732-734),
\* otherwise the application
HttpRequest(path, headers) ==
    /\ IF scope.type = "idle" THEN TRUE ELSE scope.at = "done"
    /\ scope' = Scope(IF oauth_config.auth_enabled THEN "auth" ELSE "session", path,
                      headers, cookie, Absent, FALSE)
    /\ sent' = Absent
    /\ UNCHANGED <<oauth_config, cookie, serverVars, streamVars, reduceVars, agentVars>>

\* AuthMiddleware.__call__
AuthMiddlewareCall ==
    /\ scope.type = "http" /\ scope.at = "auth"
    /\ IF AuthMiddlewareForwards(oauth_config, scope)
       THEN scope' = [scope EXCEPT !.at = "session"] /\ UNCHANGED sent
       ELSE scope' = [scope EXCEPT !.at = "done"] /\ sent' = Some(Unauthorized401)
    /\ UNCHANGED <<oauth_config, cookie, serverVars, streamVars, reduceVars, agentVars>>

\* SessionMiddleware, installed inside the Starlette application when auth is
\* enabled (lines 723-728): it loads the cookie's session into the scope
SessionMiddlewareCall ==
    /\ scope.type = "http" /\ scope.at = "session"
    /\ scope' = [scope EXCEPT !.at = "app",
                              !.session = IF ~oauth_config.auth_enabled THEN Absent
                                          ELSE IF Has(scope.carried) THEN scope.carried
                                          ELSE Some(EmptySession)]
    /\ UNCHANGED <<oauth_config, cookie, sent, serverVars, streamVars, reduceVars,
                   agentVars>>

\* the route runs: a successful /auth/callback marks the session
\* authenticated (oauth.py lines 161-167), /auth/logout clears it (line 190)
\* and the response sets the client's cookie
Route(login_succeeds) ==
    /\ scope.type = "http" /\ scope.at = "app"
    /\ scope' = [scope EXCEPT !.at = "done", !.reached = TRUE]
    /\ sent' = Some(AppResponse)
    /\ cookie' =
          IF ~oauth_config.auth_enabled THEN cookie
          ELSE IF scope.path = "/auth/callback" /\ login_succeeds
          THEN Some(Session(Some(User(TRUE))))
          ELSE IF scope.path = "/auth/logout" THEN Absent
          ELSE cookie
    /\ UNCHANGED <<oauth_config, serverVars, streamVars, reduceVars, agentVars>>

NextMiddleware ==
    \/ \E path \in Paths, headers \in HeaderSets : HttpRequest(path, headers)
    \/ AuthMiddlewareCall
    \/ SessionMiddlewareCall
    \/ \E login_succeeds \in BOOLEAN : Route(login_succeeds)

SpecMiddleware == InitMiddleware /\ [][NextMiddleware]_vars

\* the request is on a public path
PublicPath(path) == path \in {"/health", "/favicon.ico"} \/ StartsWithAuth(path)
\* the request carries a configured API key in X-API-Key or as a bearer token
CarriesApiKey(config, headers) ==
    \/ Has(headers.x_api_key) /\ Val(headers.x_api_key) \in config.api_keys
    \/ /\ Has(headers.authorization)
       /\ \E key \in config.api_keys : Val(headers.authorization) = <<"Bearer ", key>>
\* the session the request's cookie carries is marked authenticated
SessionAuthenticated(carried) ==
    Has(carried) /\ Has(Val(carried).user) /\ Val(Val(carried).user).authenticated

\* C23: with auth enabled, a request that has passed AuthMiddleware was
\* forwarded exactly when its path is public, or it carries a configured API
\* key, or its session is marked authenticated; every other request was
\* answered 401 and never reaches the application.
C23_ForwardsExactlyAuthenticated ==
    (oauth_config.auth_enabled /\ scope.type = "http" /\ scope.at # "auth") =>
        LET admitted == \/ PublicPath(scope.path)
                        \/ CarriesApiKey(oauth_config, scope.headers)
                        \/ SessionAuthenticated(scope.carried)
        IN  /\ admitted => scope.at \in {"session", "app"} \/ scope.reached
            /\ ~admitted => scope.at = "done" /\ ~scope.reached
                               /\ sent = Some(Unauthorized401)

(***************************************************************************)
(* The expiry boundary of the issued-token table, verify_token lines       *)
(* 186-205, under Spec.                                                    *)
(***************************************************************************)
\* the step in which a request presents, with auth enabled, a token that the
\* table holds
PresentsIssued ==
    /\ Arrives
    /\ cfg.OAUTH_ENABLED
    /\ Has(req'.cred)
    /\ Val(req'.cred) \in DOMAIN active_tokens

\* the presented token is answered as expired and its entry removed
TreatedExpired ==
    /\ req'.pc = "done"
    /\ req'.failure = "expired"
    /\ active_tokens' = Del(active_tokens, Val(req'.cred))

\* the presented token authenticates and its entry stays
TreatedValid ==
    /\ req'.pc = "authed"
    /\ req'.failure = "none"
    /\ active_tokens' = active_tokens

\* C24 as stated: an issued token found in the table is treated as expired
\* exactly when now > expires_at; presented at now = expires_at it still
\* authenticates and is not removed.
C24_ExpiredAfterExpiresAt ==
    [][ PresentsIssued =>
          IF now > active_tokens[Val(req'.cred)].expires_at
          THEN TreatedExpired ELSE TreatedValid ]_vars

\* C24 amended: an issued token found in the table is treated as expired
\* exactly when now >= expires_at; presented at now = expires_at it is
\* answered as expired and removed, and it authenticates only while
\* now < expires_at.
C24_ExpiredFromExpiresAt ==
    [][ PresentsIssued =>
          IF now >= active_tokens[Val(req'.cred)].expires_at
          THEN TreatedExpired ELSE TreatedValid ]_vars

\* a token issued at time 0 with a positive lifetime was presented at exactly
\* its expires_at and answered as expired
C24_Witness ==
    /\ cfg.OAUTH_ENABLED
    /\ cfg.OAUTH_TOKEN_EXPIRY > 0
    /\ now = cfg.OAUTH_TOKEN_EXPIRY
    /\ req.pc = "done"
    /\ req.failure = "expired"
    /\ req.cred = Some(Token(1))
    /\ issued >= 1
    /\ Token(1) \notin DOMAIN active_tokens

(***************************************************************************)
(* The reducer of the REST variant, invoke_agent of                        *)
(* src/src/agent_mcp/openapi_oauth_server.py lines 1303-1323, next to the  *)
(* reducer of invoke_langgraph_agent.  SpecReducers runs both on one       *)
(* message list; selected and output_text map each variant to its result.  *)
(***************************************************************************)
Variants == {"mcp", "rest"}
REST_DEFAULT_TEXT == <<"Task completed">>

\* lines 1307-1310: role == "assistant" or type == "ai"
RestIsAssistant(msg) ==
    \/ msg.role = Some("assistant")
    \/ msg.type = Some("ai")

\* lines 1312-1319: the top-level content when the key is there, else the
\* nested message dict's content
RestExtractContent(msg) ==
    IF Has(msg.content) THEN msg.content
    ELSE IF Has(msg.message) /\ Val(msg.message).isdict
    THEN IF Has(Val(msg.message).content)
         THEN Val(msg.message).content
         ELSE Some(T_EMPTY)
    ELSE Absent

\* the message the REST loop breaks on, lines 1310-1323
RestSelects(msg) ==
    /\ RestIsAssistant(msg)
    /\ Substantial(RestExtractContent(msg))

RECURSIVE RestScanFrom(_, _)
RestScanFrom(ms, i) ==
    IF i = 0 THEN 0
    ELSE IF RestSelects(ms[i]) THEN i
    ELSE RestScanFrom(ms, i - 1)

RestReduceIdx(ms) == RestScanFrom(ms, Len(ms))

\* output_text starts as "Task completed" and is overwritten on the break
RestReduce(ms) ==
    IF RestReduceIdx(ms) = 0
    THEN REST_DEFAULT_TEXT
    ELSE Val(RestExtractContent(ms[RestReduceIdx(ms)]))

InitReducers ==
    /\ ServerIdle
    /\ StreamIdle
    /\ AgentIdle
    /\ MiddlewareIdle
    /\ msgs \in MessageLists
    /\ selected = [v \in Variants |-> 0]
    /\ output_text = [v \in Variants |-> Absent]

\* the reducer of variant v runs on msgs
RunVariant(v) ==
    /\ output_text[v] = Absent
    /\ selected' = [selected EXCEPT ![v] = IF v = "mcp" THEN ReduceIdx(msgs)
                                            ELSE RestReduceIdx(msgs)]
    /\ output_text' = [output_text EXCEPT ![v] = Some(IF v = "mcp" THEN Reduce(msgs)
                                                     ELSE RestReduce(msgs))]
    /\ UNCHANGED <<msgs, serverVars, streamVars, agentVars, middlewareVars>>

NextReducers == \E v \in Variants : RunVariant(v)

SpecReducers == InitReducers /\ [][NextReducers]_vars

\* C25: on every final message list the two reducers stop at the same
\* message and return the same content, and one returns its fallback text
\* exactly when the other does.
C25_ReducersAgree ==
    (\A v \in Variants : Has(output_text[v])) =>
        /\ selected["rest"] = selected["mcp"]
        /\ selected["mcp"] # 0 => output_text["rest"] = output_text["mcp"]
        /\ output_text["rest"] = Some(REST_DEFAULT_TEXT)
              <=> output_text["mcp"] = Some(FALLBACK_TEXT)

(***************************************************************************)
(* The order of verify_token and mcp_endpoint, lines 1409-1413: the        *)
(* handler is entered with the value the dependency returned.              *)
(***************************************************************************)
\* the handler has run for the request in flight: it made the upstream call
\* or produced the response
Processed == req.pc = "upstream" \/ (req.pc = "done" /\ req.failure = "none")

\* the credential of the request in flight resolves under the chain: it is
\* in the issued-token table, or a configured API key, or a token that the
\* introspection endpoint answered active
ResolverSucceeded ==
    /\ Has(req.cred)
    /\ \/ /\ Val(req.cred) \in DOMAIN active_tokens
          /\ req.auth = TokenDataAuth(active_tokens[Val(req.cred)])
       \/ /\ Val(req.cred) \in cfg.API_KEYS
          /\ req.auth = ApiKeyAuth
       \/ /\ Val(req.cred) \notin cfg.API_KEYS
          /\ cfg.OKTA_INTROSPECT_URL
          /\ req.okta.status = 200 /\ req.okta.active
          /\ req.auth = OktaAuth(req.okta.info)

\* C26: with auth enabled, whenever mcp_endpoint has processed the request in
\* flight or called the upstream for it, the credential resolver succeeded
\* for that request; a request whose resolution failed or is still awaiting
\* introspection has no upstream payload and no handler response.
C26_ResolverBeforeHandler ==
    cfg.OAUTH_ENABLED =>
        /\ Processed => ResolverSucceeded
        /\ req.pc = "introspecting" => req.payload = NoPayload /\ req.resp = NoResponse
        /\ (req.pc = "done" /\ req.failure # "none") =>
              /\ req.payload = NoPayload
              /\ req.resp \in {MissingCredentialResponse, ExpiredTokenResponse,
                               InvalidTokenResponse}

\* with auth enabled, a request whose token the introspection endpoint
\* answered active has reached the upstream call
C26_Witness ==
    /\ cfg.OAUTH_ENABLED
    /\ req.pc = "upstream"
    /\ req.auth.type = Some("okta_token")
    /\ req.okta.status = 200 /\ req.okta.active
    /\ req.payload # NoPayload

(***************************************************************************)
(* tools/call on its own: SpecCall sends tools/call requests for each tool *)
(* of execute_tool that the model covers, with and without an assistant_id *)
(* argument, and lets each upstream call end in each way it can.           *)
(***************************************************************************)
B_STREAM == Body("object", <<"tools", "call">>, Some("stream_agent"), T_HELLO)
B_INVOKE_ASSISTANT == [B_INVOKE EXCEPT !.assistant_id = Some("researcher")]
B_STREAM_ASSISTANT == [B_STREAM EXCEPT !.assistant_id = Some("researcher")]
\* check_agent_status without and with its required agent_name
B_STATUS_NOARG == Body("object", <<"tools", "call">>, Some("check_agent_status"), <<>>)
B_STATUS == Body("object", <<"tools", "call">>, Some("check_agent_status"), T_HELLO)
CallBodies ==
    { B_ECHO, B_NOTOOL, B_INVOKE, B_INVOKE_ASSISTANT, B_STREAM, B_STREAM_ASSISTANT,
      B_STATUS_NOARG, B_STATUS }

\* what stream_langgraph_agent (lines 701-725) and check_agent_status_tool
\* (lines 822-831) return
SucceededResult(what) == [status |-> "success", output |-> what]

\* the results the awaited tool function can hand back to execute_tool
ToolResults(tool_name) ==
    CASE tool_name = "invoke_agent" -> AgentEnvelopes
      [] tool_name = "stream_agent" ->
           { SucceededResult("chunks"),
             FailedResult("HTTP error streaming from agent"),
             FailedResult("Error streaming from agent") }
      [] OTHER -> { SucceededResult("status_check"), FailedResult("ConnectError") }

InitCall == Init

\* the awaited tool function returns result to execute_tool
ToolReturns(result) ==
    /\ req.pc = "upstream"
    /\ result \in ToolResults(Val(req.body.name))
    /\ req' = [req EXCEPT !.pc = "done", !.resp = ToolResponse(req.body, result)]
    /\ UNCHANGED <<cfg, now, active_tokens, issued, tokenResp, streamVars, reduceVars,
                   agentVars, middlewareVars>>

AllToolResults == UNION { ToolResults(name) : name \in {"invoke_agent", "stream_agent", ""} }

NextCall ==
    \/ OauthToken(TokenBody("object", "client_credentials", OAUTH_CLIENT_ID,
                            OAUTH_CLIENT_SECRET))
    \/ \E credentials \in Credentials, body \in CallBodies : McpRequest(credentials, body)
    \/ \E outcome \in OktaOutcomes : OktaResponds(outcome)
    \/ McpHandle
    \/ \E result \in AllToolResults : ToolReturns(result)
    \/ SendResponse

SpecCall == InitCall /\ [][NextCall]_vars

\* the tool named by the call gives a result with status "failed" without an
\* upstream call: the name is unknown, or a required argument is missing
FailsAtOnce(body) ==
    \/ Val(body.name) \notin {"echo", "invoke_agent", "stream_agent", "check_agent_status"}
    \/ Val(body.name) = "check_agent_status" /\ body.text = <<>>

\* C27: a tools/call is answered with the JSON-RPC error -32603 and HTTP 500
\* exactly when the executed tool's result has status "failed", which an
\* unknown tool name and a missing required argument give; and a failed
\* upstream call of invoke_agent is answered with HTTP 200 and a result whose
\* isError is true and whose text describes the error.
C27_FailedResultsOnly ==
    [][ /\ (req.pc = "authed" /\ req'.pc = "done") =>
              (JsonRpcError(req'.resp, 500, -32603) <=> FailsAtOnce(req.body))
        /\ \A result \in AllToolResults :
              ToolReturns(result) =>
                 /\ JsonRpcError(req'.resp, 500, -32603) <=> Failed(result)
                 /\ Val(req.body.name) = "invoke_agent" =>
                       /\ req'.resp = JsonRpc(200, req.body.id, 0, result)
                       /\ result # SuccessEnvelope(T_HELLO) =>
                             /\ result.isError
                             /\ result.text[1] \in {"HTTP error invoking agent: ",
                                                    "Error invoking agent: "} ]_vars

\* C30: every upstream call made for a tools/call of invoke_agent or
\* stream_agent carries assistant_id "supervisor", also when the caller's
\* arguments name another assistant.
C30_AlwaysSupervisor ==
    (req.pc = "upstream" /\ Val(req.body.name) \in {"invoke_agent", "stream_agent"}) =>
        req.payload.assistant_id = "supervisor"

\* an upstream call for stream_agent whose arguments asked for the assistant
\* "researcher" goes to "supervisor"
C30_Witness ==
    /\ req.pc = "upstream"
    /\ req.body = B_STREAM_ASSISTANT
    /\ req.body.assistant_id = Some("researcher")
    /\ req.payload.assistant_id = "supervisor"

(***************************************************************************)
(* The end of the stream and the lines outside an event, over SpecStream.  *)
(***************************************************************************)
\* C28: a pending event is flushed only by a following "event:" line or
\* empty line, never by the end of the stream: a step that feeds any other
\* line, and the step that ends the stream, change neither run_id nor the
\* message snapshot, so the data lines received last are not used; and data
\* lines received while no event name is pending are dropped at the next
\* "event:" or empty line without changing either.
C28_NoFlushAtEndOfStream ==
    [][ /\ (lines' # lines /\ lines'[Len(lines')].k \notin { "event", "blank" }) =>
              /\ run_id' = run_id
              /\ final_messages' = final_messages
        /\ (pc = "parse" /\ pc' = "done" /\ ~Has(exc')) =>
              /\ lines' = lines
              /\ run_id' = run_id
              /\ final_messages' = final_messages
              /\ envelope' = SuccessEnvelope(Reduce(final_messages))
        /\ (lines' # lines /\ EndsFrame(lines', Len(lines')) /\ ~Has(current_event)) =>
              /\ run_id' = run_id
              /\ final_messages' = final_messages
              /\ current_data' = <<>> ]_vars

\* a completed stream: a run id sent before any event name was dropped, the
\* first values event was flushed by the second "event:" line, and the data
\* of the second, the last line received, was never used
C28_Witness ==
    /\ pc = "done"
    /\ ~Has(exc)
    /\ lines = << DataLine("D_RUN"), EventLine("values"), DataLine("D_OLD"),
                  EventLine("values"), DataLine("D_NEW") >>
    /\ current_data = <<"D_NEW">>
    /\ run_id = Absent
    /\ final_messages = M_OLD
    /\ envelope = SuccessEnvelope(T_OLD)

(***************************************************************************)
(* Frames whose data is valid JSON but no object.  SpecFrames feeds the    *)
(* parser data that decodes to a number, true, null and a list, under the  *)
(* event names the parser reads and under one it does not.                 *)
(***************************************************************************)
\* D_TRUE  true      D_NULL  null      D_LIST  []
FrameLines ==
    { EventLine(n) : n \in { "metadata", "values", "updates" } }
       \cup { DataLine(t) : t \in { "D_OLD", "D_NUM", "D_TRUE", "D_NULL", "D_LIST", "D_BAD" } }
       \cup { BlankLine }

InitFrames == InitStream

NextFrames ==
    \/ UpstreamResponds(200, 0) /\ UNCHANGED <<serverVars, reduceVars, agentVars, middlewareVars>>
    \/ \E l \in FrameLines :
          RecvLine(l) /\ UNCHANGED <<serverVars, reduceVars, agentVars, middlewareVars>>
    \/ StreamEnds /\ UNCHANGED <<serverVars, reduceVars, agentVars, middlewareVars>>

SpecFrames == InitFrames /\ [][NextFrames]_vars

\* line j ends a metadata or values event whose data decodes to a number, a
\* boolean or null
ScalarFrame(L, j) ==
    LET i == PrevEnd(L, j)
    IN  /\ EndsFrame(L, j)
        /\ i > 0
        /\ L[i] \in { EventLine("metadata"), EventLine("values") }
        /\ Len(DataBetween(L, i, j)) > 0
        /\ Loads(DataBetween(L, i, j)).t \in { "number", "boolean", "null" }

\* C29: a metadata or values frame whose data decodes to a number, a boolean
\* or null is not skipped as an undecodable frame is: the line that ends it
\* is the last line read and the invocation ends with isError=true and the
\* text of the TypeError, whatever snapshot earlier frames had delivered;
\* and the parser raises for no other frame.
C29_ScalarFrameEndsInvocation ==
    /\ \A j \in 1..Len(lines) :
          ScalarFrame(lines, j) =>
              /\ j = Len(lines)
              /\ pc = "done"
              /\ exc = Some("TypeError")
              /\ envelope = ErrorEnvelope("TypeError")
    /\ \A j \in 1..Len(lines) :
          UndecodableFrame(lines, j) => ~(j = Len(lines) /\ Has(exc))
    /\ Has(exc) => ScalarFrame(lines, Len(lines))

\* a values event delivered a snapshot, and a metadata frame holding null
\* then ended the invocation with an error
C29_Witness ==
    /\ lines = << EventLine("values"), DataLine("D_OLD"), EventLine("metadata"),
                  DataLine("D_NULL"), BlankLine >>
    /\ final_messages = M_OLD
    /\ pc = "done"
    /\ exc = Some("TypeError")
    /\ envelope = ErrorEnvelope("TypeError")
    /\ envelope.isError

====
